---- MODULE Spec2Model ----
(***************************************************************************)
(* A model of the HFT market-data transport core:                          *)
(*   - the SPSC lock-free ring (include/common/ring_buffer.hpp),           *)
(*   - the named shared-memory segment handle                              *)
(*     (include/common/shared_memory.hpp),                                 *)
(*   - the publisher / shared-memory consumer start-up that places the     *)
(*     ring in a segment (src/publisher/main.cpp,                          *)
(*     src/shm_consumer/main.cpp),                                         *)
(*   - the publisher's TcpServer (src/publisher/main.cpp),                 *)
(*   - the cached clock (include/common/fast_clock.hpp),                   *)
(*   - the quote record and its JSON form                                  *)
(*     (include/common/market_data.hpp),                                   *)
(*   - the publisher's main: start, loop and shutdown                      *)
(*     (src/publisher/main.cpp),                                           *)
(*   - the receive loop of the TCP consumer (src/tcp_consumer/main.cpp)    *)
(*     and the latency the two consumers compute.                          *)
(*                                                                         *)
(* The specifications share the variables:                                 *)
(*   Spec     the ring as an ordinary object, one producer thread and one  *)
(*            consumer thread, every memory access a step of its own;      *)
(*   SpecShm  segment handles constructed and destroyed on one OS name     *)
(*            (SpecShmFaults: the same with failing system calls);         *)
(*   SpecIpc  the publisher creating the segment and the ring, the         *)
(*            consumer attaching and polling;                              *)
(*   SpecCtor, SpecMove  segment handles with failing system calls, and    *)
(*            with moves;                                                  *)
(*   SpecServe, SpecStall, SpecWrite  the TcpServer with its clients;      *)
(*   SpecCount  the TcpServer with get_client_count() calls;               *)
(*   SpecClock  one FastClock object (SpecClockLive: with fair threads);   *)
(*   SpecCodec  a MarketData built, written as JSON and read back;         *)
(*   SpecLoop   the publisher's loop: try_write, then broadcast_json, with *)
(*            a limit above the ring's capacity (SpecRun: with the limit   *)
(*            within the capacity, as in the source);                      *)
(*   SpecMain   main from the construction of the segment to the join of   *)
(*            the server's thread (SpecMainLive: with fair threads);       *)
(*   SpecSockets  the accept handler call by call, beside broadcast_json;  *)
(*   SpecLatency  the stamps and the latencies of the two consumers;       *)
(*   SpecConsume  the TCP consumer's receive loop (SpecConsumeLive: fair); *)
(*   SpecRingLive  the ring with a consumer that keeps reading.            *)
(***************************************************************************)
EXTENDS Integers, Sequences, FiniteSets, TLC

(***************************************************************************)
(* Bounds of the model.                                                    *)
(***************************************************************************)
\* log2 of the number of slots: the source has 1024 = 2^10 slots.
RingBits == 2
\* try_write is not called any more once this many records were accepted.
MaxRecords == 6
\* Width of size_t in the model (64 in the source): wide enough for every
\* index, and a multiple of the ring size as in the source.
WordBits == 8
\* Number of memory objects the OS model can hold at a time.
MaxObjs == 4
\* Number of connections made to the TCP server.
MaxSocks == 2
\* Number of broadcast_json calls.
MaxLines == 2
\* The highest reading of the underlying clock.
MaxTime == 3
\* Number of now() calls.
MaxNows == 3
\* Width of the instrument field (16 in the source), and the length of the
\* longest symbol given to the constructor or found in a JSON text.
\* The number of messages after which the publisher's loop ends: RunLimit,
\* like the 1000 of the source, is within the capacity of the ring (1023 in
\* the source); MessageLimit is above it, for the runs in which the loop
\* meets a full ring.  StatusEvery is the period of the status line (100 in
\* the source).
RunLimit == 3
MessageLimit == 4
StatusEvery == 2

\* The largest overflow_count the loop is followed to.
MaxOverflows == 2

\* The number of non-empty lines after which the TCP consumer stops (50 in
\* the source), and the number of lines the publisher's end sends it.
LineLimit == 3
MaxSent == 4

InstrumentBytes == 3
MaxSymLen == 4

(***************************************************************************)
(* Program constants and arithmetic.                                       *)
(***************************************************************************)
RING_BUFFER_SIZE == 2^RingBits

SizeModulus == 2^WordBits

\* size_t arithmetic wraps modulo 2^width.
SizeT(x) == x % SizeModulus

\* The bitwise AND of two non-negative integers.
RECURSIVE BitAnd(_, _)
BitAnd(x, y) ==
    IF x = 0 \/ y = 0 THEN 0
    ELSE (x % 2) * (y % 2) + 2 * BitAnd(x \div 2, y \div 2)

\* (i + 1) & (RING_BUFFER_SIZE - 1)
NextIndex(i) == BitAnd(SizeT(i + 1), RING_BUFFER_SIZE - 1)

\* A MarketData value is copied as a plain 64-byte struct, not atomically: the
\* model copies it in two halves, so that a torn copy is a value of its own.
Payloads == {1, 2}
ZeroRecord == <<0, 0>>
MakeRecord(p) == <<p, p>>
Words == {0} \cup Payloads
Records == Words \X Words

Slots == 0 .. (RING_BUFFER_SIZE - 1)

(***************************************************************************)
(* The state.                                                              *)
(***************************************************************************)
VARIABLES
    write_idx,    \* RingBuffer::write_idx
    read_idx,     \* RingBuffer::read_idx
    buffer,       \* RingBuffer::buffer
    prod,         \* the producer thread: its place in try_write and its locals
    cons,         \* the consumer thread: its place in try_read and its locals
    accepted,     \* history: the records of the try_write calls that returned true
    returned,     \* history: the records of the try_read calls that returned true
    insp,         \* the results of the last inspector calls
    shm_names,    \* OS: the shared-memory name space, name -> object
    shm_objs,     \* OS: the memory objects
    handles,      \* the SharedMemoryManager objects
    clients_,        \* TcpServer::clients_
    clients_mutex_,  \* TcpServer::clients_mutex_: the thread holding it
    accept_armed,    \* the number of async_accept operations outstanding
    conn,            \* the connections: the server's socket and the peer's end
    io,              \* the thread in io_context.run(): the handler it is in
    bc,              \* the thread calling broadcast_json: its place in the call
    wq,              \* per socket, the asynchronous writes under way
    rx,              \* history: per client, the bytes it received
    submitted,       \* history: per client, the lines whose write was submitted
    cached_time_ns,  \* FastClock::cached_time_ns
    running,         \* FastClock::running
    wall,            \* the reading of std::chrono::high_resolution_clock
    fclock,          \* the FastClock constructor and update_loop: their places
    nows,            \* history: what the successive now() calls returned
    codec,           \* a MarketData being built, encoded and decoded
    tc,              \* the TCP consumer: its loop, its counters, its connection
    pub,             \* the publisher's main thread: its place in the loop
    handed,          \* history: the records handed to broadcast_json
    meas             \* the publisher's FastClock, the timestamps it gave to the
                     \* records published, the latencies the consumers computed

ringVars == <<write_idx, read_idx, buffer>>
histVars == <<accepted, returned>>
shmVars == <<shm_names, shm_objs, handles>>
tcpVars == <<clients_, clients_mutex_, accept_armed, conn, io, bc, wq, rx, submitted>>
clockVars == <<cached_time_ns, running, wall, fclock, nows>>
coreVars == <<ringVars, prod, cons, histVars, insp, shmVars>>
codecVars == <<codec, tc>>
loopVars == <<pub, handed, meas>>
vars == <<write_idx, read_idx, buffer, prod, cons, accepted, returned, insp,
          shm_names, shm_objs, handles, tcpVars, clockVars, codecVars, loopVars>>

(***************************************************************************)
(* RingBuffer: the inspectors, as functions of the two index values they   *)
(* load.                                                                   *)
(***************************************************************************)
capacity == RING_BUFFER_SIZE - 1

\* Mutants of the full test: never full; full one slot early.
RingFullNever(next_write, current_read) == FALSE

RingFullOneEarly(next_write, current_read) ==
    NextIndex(next_write) = current_read

\* try_write: if (next_write == current_read) return false;
RingFull(next_write, current_read) == next_write = current_read

\* Mutant of the empty test: never empty.
RingEmptyNever(current_read, current_write) == FALSE

\* try_read: if (current_read == current_write) return false;
RingEmpty(current_read, current_write) == current_read = current_write

\* Mutant of is_full: the index is not masked.
IsFullUnmasked(current_write, current_read) ==
    current_write + 1 = current_read

is_full(current_write, current_read) ==
    NextIndex(current_write) = current_read

is_empty(current_write, current_read) == current_read = current_write

\* Mutant of available_for_write: the reserved slot is not subtracted.
AvailableForWriteNoReserve(current_write, current_read) ==
    BitAnd(SizeT(current_read - current_write), RING_BUFFER_SIZE - 1)

available_for_write(current_write, current_read) ==
    BitAnd(SizeT(current_read - current_write - 1), RING_BUFFER_SIZE - 1)

available_for_read(current_write, current_read) ==
    BitAnd(SizeT(current_write - current_read), RING_BUFFER_SIZE - 1)

(***************************************************************************)
(* Through what a thread reaches the ring: "direct" is a RingBuffer object *)
(* of the thread's own process (readable and writable), "none" is no       *)
(* pointer yet, and a handle name is the mapping of that                   *)
(* SharedMemoryManager, with the protection its constructor asked for.     *)
(***************************************************************************)
Handles == {"h1", "h2", "h3"}

MAP_FAILED == -1

ViewProt(view) ==
    IF view = "direct" THEN "rw"
    ELSE IF view = "none" THEN "none"
    ELSE IF handles[view].mapped_addr = MAP_FAILED THEN "none"
    ELSE handles[view].prot

(***************************************************************************)
(* RingBuffer::try_write, one step per access to the shared state.         *)
(***************************************************************************)
ProdIdle(view, ret) ==
    [pc |-> "idle", view |-> view, data |-> ZeroRecord, current_write |-> 0,
     next_write |-> 0, current_read |-> 0, ret |-> ret, steps |-> 0]

\* The call, and line 88-89: load write_idx (relaxed), compute next_write.
TryWriteCall(p) ==
    /\ prod.pc = "idle"
    /\ ViewProt(prod.view) = "rw"
    /\ Len(accepted) < MaxRecords
    /\ prod' = [prod EXCEPT !.pc = "w_load_read",
                            !.data = MakeRecord(p),
                            !.current_write = write_idx,
                            !.next_write = NextIndex(write_idx),
                            !.ret = "none",
                            !.steps = 1]
    /\ UNCHANGED <<ringVars, cons, histVars, insp, shmVars,
                 tcpVars, clockVars, codecVars>>

\* The call made by a thread that is not in the publisher's loop.
TryWriteLoadWrite(p) == TryWriteCall(p) /\ UNCHANGED loopVars

\* Mutant of the full path: wait for a free slot instead of returning false.
TryWriteLoadReadSpin ==
    /\ prod.pc = "w_load_read"
    /\ IF RingFull(prod.next_write, read_idx)
       THEN prod' = [prod EXCEPT !.steps = @ + 1]
       ELSE prod' = [prod EXCEPT !.pc = "w_copy_lo",
                                 !.current_read = read_idx,
                                 !.steps = @ + 1]
    /\ UNCHANGED <<ringVars, cons, histVars, insp, shmVars,
                 tcpVars, clockVars, codecVars, loopVars>>

\* Line 93-96: load read_idx (acquire); return false when the ring is full.
TryWriteLoadRead ==
    /\ prod.pc = "w_load_read"
    /\ IF RingFull(prod.next_write, read_idx)
       THEN prod' = ProdIdle(prod.view, "false")
       ELSE prod' = [prod EXCEPT !.pc = "w_copy_lo",
                                 !.current_read = read_idx,
                                 !.steps = @ + 1]
    /\ UNCHANGED <<ringVars, cons, histVars, insp, shmVars,
                 tcpVars, clockVars, codecVars, loopVars>>

\* Line 99: buffer[current_write] = data, the first half and the second half.
TryWriteCopy ==
    /\ prod.pc \in {"w_copy_lo", "w_copy_hi"}
    /\ LET k == IF prod.pc = "w_copy_lo" THEN 1 ELSE 2
       IN  buffer' = [buffer EXCEPT ![prod.current_write][k] = prod.data[k]]
    /\ prod' = [prod EXCEPT
                  !.pc = IF prod.pc = "w_copy_lo" THEN "w_copy_hi" ELSE "w_store",
                  !.steps = @ + 1]
    /\ UNCHANGED <<write_idx, read_idx, cons, histVars, insp, shmVars,
                 tcpVars, clockVars, codecVars, loopVars>>

\* Line 103-105: store write_idx (release), return true.
TryWriteStore ==
    /\ prod.pc = "w_store"
    /\ write_idx' = prod.next_write
    /\ accepted' = Append(accepted, prod.data)
    /\ prod' = ProdIdle(prod.view, "true")
    /\ UNCHANGED <<read_idx, buffer, cons, returned, insp, shmVars,
                 tcpVars, clockVars, codecVars, loopVars>>

(***************************************************************************)
(* RingBuffer::try_read, one step per access to the shared state.  The     *)
(* caller's out record keeps its value between calls.                      *)
(***************************************************************************)
ConsIdle(view, out, ret) ==
    [pc |-> "idle", view |-> view, out |-> out, current_read |-> 0,
     current_write |-> 0, ret |-> ret, steps |-> 0]

\* The call, and line 132: load read_idx (relaxed).
TryReadLoadRead ==
    /\ cons.pc = "idle"
    /\ ViewProt(cons.view) \in {"rw", "r"}
    /\ cons' = [cons EXCEPT !.pc = "r_load_write",
                            !.current_read = read_idx,
                            !.ret = "none",
                            !.steps = 1]
    /\ UNCHANGED <<ringVars, prod, histVars, insp, shmVars,
                 tcpVars, clockVars, codecVars, loopVars>>

\* Mutant of the empty path: the out record is reset before returning false.
TryReadLoadWriteClearsOut ==
    /\ cons.pc = "r_load_write"
    /\ IF RingEmpty(cons.current_read, write_idx)
       THEN cons' = ConsIdle(cons.view, ZeroRecord, "false")
       ELSE cons' = [cons EXCEPT !.pc = "r_copy_lo",
                                 !.current_write = write_idx,
                                 !.steps = @ + 1]
    /\ UNCHANGED <<ringVars, prod, histVars, insp, shmVars,
                 tcpVars, clockVars, codecVars, loopVars>>

\* Line 133-138: load write_idx (acquire); return false when the ring is empty.
TryReadLoadWrite ==
    /\ cons.pc = "r_load_write"
    /\ IF RingEmpty(cons.current_read, write_idx)
       THEN cons' = ConsIdle(cons.view, cons.out, "false")
       ELSE cons' = [cons EXCEPT !.pc = "r_copy_lo",
                                 !.current_write = write_idx,
                                 !.steps = @ + 1]
    /\ UNCHANGED <<ringVars, prod, histVars, insp, shmVars,
                 tcpVars, clockVars, codecVars, loopVars>>

\* Mutant of the copy out of the slot: the half read is zeroed in the slot.
TryReadCopyClearsSlot ==
    /\ cons.pc \in {"r_copy_lo", "r_copy_hi"}
    /\ LET k == IF cons.pc = "r_copy_lo" THEN 1 ELSE 2
       IN  /\ cons' = [cons EXCEPT
                         !.out[k] = buffer[cons.current_read][k],
                         !.pc = IF cons.pc = "r_copy_lo" THEN "r_copy_hi" ELSE "r_store",
                         !.steps = @ + 1]
           /\ buffer' = [buffer EXCEPT ![cons.current_read][k] = ZeroRecord[k]]
    /\ UNCHANGED <<write_idx, read_idx, prod, histVars, insp, shmVars,
                 tcpVars, clockVars, codecVars, loopVars>>

\* Line 141: data = buffer[current_read], the first half and the second half.
TryReadCopy ==
    /\ cons.pc \in {"r_copy_lo", "r_copy_hi"}
    /\ LET k == IF cons.pc = "r_copy_lo" THEN 1 ELSE 2
       IN  cons' = [cons EXCEPT
                      !.out[k] = buffer[cons.current_read][k],
                      !.pc = IF cons.pc = "r_copy_lo" THEN "r_copy_hi" ELSE "r_store",
                      !.steps = @ + 1]
    /\ UNCHANGED <<ringVars, prod, histVars, insp, shmVars,
                 tcpVars, clockVars, codecVars, loopVars>>

\* Mutant of the end of try_read: read_idx is not stored and the call
\* returns false.
TryReadStoreKeepsIndex ==
    /\ cons.pc = "r_store"
    /\ IF ViewProt(cons.view) = "rw"
       THEN /\ cons' = ConsIdle(cons.view, cons.out, "false")
            /\ UNCHANGED <<read_idx, returned>>
       ELSE /\ cons' = [cons EXCEPT !.pc = "sigsegv"]
            /\ UNCHANGED <<read_idx, returned>>
    /\ UNCHANGED <<write_idx, buffer, prod, accepted, insp, shmVars,
                 tcpVars, clockVars, codecVars, loopVars>>

\* Line 144-147: store read_idx (release), return true.  The store goes to the
\* memory the ring lives in: through a mapping made with PROT_READ alone it
\* raises SIGSEGV, which ends the consumer process.
TryReadStore ==
    /\ cons.pc = "r_store"
    /\ IF ViewProt(cons.view) = "rw"
       THEN /\ read_idx' = NextIndex(cons.current_read)
            /\ returned' = Append(returned, cons.out)
            /\ cons' = ConsIdle(cons.view, cons.out, "true")
       ELSE /\ cons' = [cons EXCEPT !.pc = "sigsegv"]
            /\ UNCHANGED <<read_idx, returned>>
    /\ UNCHANGED <<write_idx, buffer, prod, accepted, insp, shmVars,
                 tcpVars, clockVars, codecVars, loopVars>>

(***************************************************************************)
(* The inspectors, called by either thread between its own calls.  Each    *)
(* loads the two indices and returns; from the thread owning one of the    *)
(* indices the two loads amount to one look at the other index.            *)
(***************************************************************************)
NoInsp == [called |-> FALSE, is_full |-> FALSE, is_empty |-> FALSE,
           available_for_write |-> 0, available_for_read |-> 0]

Inspect ==
    /\ ViewProt(prod.view) = "rw" \/ ViewProt(cons.view) \in {"rw", "r"}
    /\ insp' = [called |-> TRUE,
                is_full |-> is_full(write_idx, read_idx),
                is_empty |-> is_empty(write_idx, read_idx),
                available_for_write |-> available_for_write(write_idx, read_idx),
                available_for_read |-> available_for_read(write_idx, read_idx)]
    /\ UNCHANGED <<ringVars, prod, cons, histVars, shmVars,
                 tcpVars, clockVars, codecVars, loopVars>>

(***************************************************************************)
(* The operating system's shared-memory objects, as the system calls of    *)
(* shared_memory.hpp see them.  A name is bound to at most one object; an  *)
(* object lives on, unnamed, while a descriptor or a mapping refers to it. *)
(* A descriptor is modelled by the object it is open on.                   *)
(***************************************************************************)
NoObj == 0
Objs == 1 .. MaxObjs
SegName == "hft_market_data"
Names == {SegName}
NameArgs == Names \cup {""}
Sizes == {0, 1, 2}
Faults == {"none", "shm_open", "fstat", "ftruncate", "mmap"}

NoObject == [size |-> 0, data |-> 0, fds |-> 0, maps |-> 0]

Referenced(os, o) ==
    \/ \E n \in Names : os.names[n] = o
    \/ os.objs[o].fds > 0
    \/ os.objs[o].maps > 0

\* The lowest object not in use.
FreshObj(os) == CHOOSE o \in Objs :
    /\ ~Referenced(os, o)
    /\ \A q \in Objs : ~Referenced(os, q) => o <= q

\* An object nothing refers to any more is freed.
Reap(os) ==
    [os EXCEPT !.objs = [o \in Objs |->
        IF Referenced(os, o) THEN os.objs[o] ELSE NoObject]]

\* shm_open(name, O_CREAT | O_RDWR): a new, empty object when the name is free.
OsOpenCreate(os, name) ==
    IF os.names[name] # NoObj
    THEN [os EXCEPT !.objs[os.names[name]].fds = @ + 1]
    ELSE LET o == FreshObj(os)
         IN  [os EXCEPT !.names[name] = o,
                        !.objs[o] = [NoObject EXCEPT !.fds = 1]]

\* shm_open(name, O_RDONLY) on a bound name.
OsOpenExisting(os, name) ==
    [os EXCEPT !.objs[os.names[name]].fds = @ + 1]

OsClose(os, o) == [os EXCEPT !.objs[o].fds = @ - 1]

\* shm_unlink(name): the name is free afterwards, whoever bound it.
OsUnlink(os, name) == [os EXCEPT !.names[name] = NoObj]

\* ftruncate(fd, size) on a new object: size bytes of zeros.
OsTruncate(os, o, size) == [os EXCEPT !.objs[o].size = size, !.objs[o].data = 0]

OsMmap(os, o) == [os EXCEPT !.objs[o].maps = @ + 1]

OsMunmap(os, o) == [os EXCEPT !.objs[o].maps = @ - 1]

(***************************************************************************)
(* SharedMemoryManager.                                                    *)
(***************************************************************************)
\* No object: before construction, after destruction.  ("threw" is the same
\* with the constructor having left by an exception.)  The field via records
\* how the object came to hold what it holds: by its constructor ("ctor"), by
\* a move into it ("move"), or, for a moved-from object, "gone".
NoHandle ==
    [state |-> "none", shm_fd_ |-> -1, mapped_addr |-> MAP_FAILED, size_ |-> 0,
     name_ |-> "", is_creator_ |-> FALSE, prot |-> "none", via |-> "none"]

Threw == [NoHandle EXCEPT !.state = "threw"]

\* Line 76: int prot = create ? (PROT_READ | PROT_WRITE) : PROT_READ;
MapProt(create) == IF create THEN "rw" ELSE "r"

\* Mutant of the mapping step: the descriptor is not closed when mmap fails.
CtorMapLeaksFd(os, o, name, size, create, fault) ==
    IF fault = "mmap"
    THEN [os |-> IF create THEN OsUnlink(os, name) ELSE os, handle |-> Threw]
    ELSE [os |-> OsMmap(os, o),
          handle |-> [state |-> "live", shm_fd_ |-> o, mapped_addr |-> o,
                      size_ |-> size, name_ |-> name, is_creator_ |-> create,
                      prot |-> MapProt(create), via |-> "ctor"]]

\* Line 75-86: mmap; on failure close, unlink when creating, and throw.
CtorMap(os, o, name, size, create, fault) ==
    IF fault = "mmap"
    THEN [os |-> IF create THEN OsUnlink(OsClose(os, o), name) ELSE OsClose(os, o),
          handle |-> Threw]
    ELSE [os |-> OsMmap(os, o),
          handle |-> [state |-> "live", shm_fd_ |-> o, mapped_addr |-> o,
                      size_ |-> size, name_ |-> name, is_creator_ |-> create,
                      prot |-> MapProt(create), via |-> "ctor"]]

\* Mutant of the create branch: the size is set whatever the current size.
CtorCreateAlwaysResizes(os, name, size, fault) ==
    IF fault = "shm_open"
    THEN [os |-> os, handle |-> Threw]
    ELSE LET os1 == OsOpenCreate(os, name)
             o == os1.names[name]
         IN  IF fault = "fstat"
             THEN [os |-> OsUnlink(OsClose(os1, o), name), handle |-> Threw]
             ELSE IF fault = "ftruncate"
                  THEN [os |-> OsUnlink(OsClose(os1, o), name), handle |-> Threw]
                  ELSE CtorMap(OsTruncate(os1, o, size), o, name, size, TRUE, fault)

\* Line 42-66: the create branch.
CtorCreate(os, name, size, fault) ==
    IF fault = "shm_open"
    THEN [os |-> os, handle |-> Threw]
    ELSE LET os1 == OsOpenCreate(os, name)
             o == os1.names[name]
         IN  IF fault = "fstat"
             THEN [os |-> OsUnlink(OsClose(os1, o), name), handle |-> Threw]
             ELSE IF os1.objs[o].size = 0
             THEN IF fault = "ftruncate"
                  THEN [os |-> OsUnlink(OsClose(os1, o), name), handle |-> Threw]
                  ELSE CtorMap(OsTruncate(os1, o, size), o, name, size, TRUE, fault)
             ELSE CtorMap(os1, o, name, size, TRUE, fault)

\* Line 67-73: the attach branch.
CtorAttach(os, name, size, fault) ==
    IF fault = "shm_open" \/ os.names[name] = NoObj
    THEN [os |-> os, handle |-> Threw]
    ELSE CtorMap(OsOpenExisting(os, name), os.names[name], name, size, FALSE, fault)

\* Line 31-86: the constructor; the name is kept without its "/" prefix.
Ctor(os, name, size, create, fault) ==
    IF name = "" \/ size = 0
    THEN [os |-> os, handle |-> Threw]
    ELSE IF create THEN CtorCreate(os, name, size, fault)
    ELSE CtorAttach(os, name, size, fault)

\* Line 169-185: cleanup().
Cleanup(os, hd) ==
    LET os1 == IF hd.mapped_addr # MAP_FAILED THEN OsMunmap(os, hd.mapped_addr) ELSE os
        os2 == IF hd.shm_fd_ # -1 THEN OsClose(os1, hd.shm_fd_) ELSE os1
    IN  IF hd.is_creator_ /\ hd.name_ # "" THEN OsUnlink(os2, hd.name_) ELSE os2

OsNow == [names |-> shm_names, objs |-> shm_objs]

\* What constructing handle h does to the OS and to h.
ConstructEffect(h, name, size, create, fault) ==
    /\ handles[h].state # "live"
    /\ LET r == Ctor(OsNow, name, size, create, fault)
       IN  /\ shm_names' = r.os.names
           /\ shm_objs' = Reap(r.os).objs
           /\ handles' = [handles EXCEPT ![h] = r.handle]

Construct(h, name, size, create, fault) ==
    /\ ConstructEffect(h, name, size, create, fault)
    /\ UNCHANGED <<ringVars, prod, cons, histVars, insp,
                 tcpVars, clockVars, codecVars, loopVars>>

\* Line 91-93: the destructor.
Destroy(h) ==
    /\ handles[h].state = "live"
    /\ LET os1 == Cleanup(OsNow, handles[h])
       IN  /\ shm_names' = os1.names
           /\ shm_objs' = Reap(os1).objs
    /\ handles' = [handles EXCEPT ![h] = NoHandle]
    /\ UNCHANGED <<ringVars, prod, cons, histVars, insp,
                 tcpVars, clockVars, codecVars, loopVars>>

\* Line 103-105, 118-120: what a move leaves in its source.  std::move of
\* name_ leaves a valid string of unspecified content: nm is what it holds.
MovedFrom(hd, nm) ==
    [hd EXCEPT !.shm_fd_ = -1, !.mapped_addr = MAP_FAILED, !.is_creator_ = FALSE,
               !.name_ = nm, !.prot = "none", !.via = "gone"]

\* What a move puts in its destination: the five members of the source.
MovedInto(hd) == [hd EXCEPT !.via = "move"]

\* Line 100-106: the move constructor, building dst from src.
MoveConstruct(dst, src) ==
    /\ dst # src
    /\ handles[dst].state # "live"
    /\ handles[src].state = "live"
    /\ \E nm \in {"", handles[src].name_} :
          handles' = [handles EXCEPT ![dst] = MovedInto(handles[src]),
                                     ![src] = MovedFrom(handles[src], nm)]
    /\ UNCHANGED <<shm_names, shm_objs, ringVars, prod, cons, histVars, insp,
                 tcpVars, clockVars, codecVars, loopVars>>

\* Line 108-123: move assignment, dst = std::move(src); assigning an object
\* to itself does nothing.
MoveAssign(dst, src) ==
    /\ handles[dst].state = "live"
    /\ handles[src].state = "live"
    /\ IF dst = src
       THEN UNCHANGED shmVars
       ELSE /\ LET os1 == Cleanup(OsNow, handles[dst])
               IN  /\ shm_names' = os1.names
                   /\ shm_objs' = Reap(os1).objs
            /\ \E nm \in {"", handles[src].name_} :
                  handles' = [handles EXCEPT ![dst] = MovedInto(handles[src]),
                                             ![src] = MovedFrom(handles[src], nm)]
    /\ UNCHANGED <<ringVars, prod, cons, histVars, insp,
                 tcpVars, clockVars, codecVars, loopVars>>

\* A store through get_address() of a handle mapped read/write.
WriteShm(h, v) ==
    /\ handles[h].state = "live"
    /\ handles[h].mapped_addr # MAP_FAILED
    /\ handles[h].prot = "rw"
    /\ shm_objs' = [shm_objs EXCEPT ![handles[h].mapped_addr].data = v]
    /\ UNCHANGED <<shm_names, handles, ringVars, prod, cons, histVars, insp,
                 tcpVars, clockVars, codecVars, loopVars>>

\* A load through get_address().
ReadShm(h) == shm_objs[handles[h].mapped_addr].data

InitShm ==
    /\ shm_names = [n \in Names |-> NoObj]
    /\ shm_objs = [o \in Objs |-> NoObject]
    /\ handles = [h \in Handles |-> NoHandle]

(***************************************************************************)
(* TcpServer (src/publisher/main.cpp).  One thread runs io_context.run()   *)
(* and with it every completion handler; the main thread calls             *)
(* broadcast_json.  A connection is known by the number of the socket the  *)
(* server accepts it on.  A line is known by the number of the             *)
(* broadcast_json call that sent it.                                       *)
(***************************************************************************)
Socks == 1 .. MaxSocks
LineIds == 1 .. MaxLines

\* The line of the k-th broadcast_json call, and the message made of it:
\* std::string message = json_message + "\n".
NL == 0
Line(k) == <<k>>
Message(k) == Line(k) \o <<NL>>

\* The numbers of bytes a socket may take at once.
SendSizes == 0 .. Len(Message(1))

\* What a read of the freed string may find instead of its bytes.
GARBAGE == -1

NoConn == [st |-> "unused", peer |-> "open", probe |-> FALSE, is_open |-> FALSE]

NoWrites == [rq |-> <<>>, posted |-> {}, failed |-> {},
             off |-> [k \in LineIds |-> 0]]

IoIdle == [pc |-> "run", sock |-> 0]

BcIdle(calls) == [pc |-> "idle", line |-> 0, todo |-> {}, steps |-> 0, calls |-> calls]

\* The n bytes of message k after the first from, as the peer receives them:
\* the bytes of the string, or what its freed memory holds.
Transmit(k, from, n, intact) ==
    [i \in 1 .. n |-> <<k, from + i,
                        IF intact THEN Message(k)[from + i] ELSE GARBAGE>>]

\* socket.async_write_some for the rest of message k, as async_write issues
\* it (line 155): the operation joins the socket's queue when one is queued;
\* otherwise the send is tried at once and n bytes go out (none: the socket
\* is not writable, the operation is queued); the completion, also one with
\* an error, is posted to the io_context.
AsyncWriteSome(w, r, peer, k, n, intact) ==
    IF w.rq # <<>>
    THEN [wq |-> [w EXCEPT !.rq = Append(@, k)], rx |-> r]
    ELSE IF peer # "open"
    THEN [wq |-> [w EXCEPT !.failed = @ \cup {k}], rx |-> r]
    ELSE IF n = 0
    THEN [wq |-> [w EXCEPT !.rq = Append(@, k)], rx |-> r]
    ELSE [wq |-> [w EXCEPT !.posted = @ \cup {k}, !.off[k] = @ + n],
          rx |-> r \o Transmit(k, w.off[k], n, intact)]

\* The clients.
ClientConnect(c) ==
    /\ conn[c].st = "unused"
    /\ conn' = [conn EXCEPT ![c].st = "connected"]
    /\ UNCHANGED <<clients_, clients_mutex_, accept_armed, io, bc, wq, rx, submitted>>
    /\ UNCHANGED <<coreVars, clockVars, codecVars, loopVars>>

\* close(): the server's read sees the end of the stream.
ClientClose(c) ==
    /\ conn[c].st # "unused"
    /\ conn[c].peer = "open"
    /\ conn' = [conn EXCEPT ![c].peer = "eof"]
    /\ UNCHANGED <<clients_, clients_mutex_, accept_armed, io, bc, wq, rx, submitted>>
    /\ UNCHANGED <<coreVars, clockVars, codecVars, loopVars>>

\* An abortive close: the server's end of the connection is reset.
ClientReset(c) ==
    /\ conn[c].st # "unused"
    /\ conn[c].peer = "open"
    /\ conn' = [conn EXCEPT ![c].peer = "reset"]
    /\ UNCHANGED <<clients_, clients_mutex_, accept_armed, io, bc, wq, rx, submitted>>
    /\ UNCHANGED <<coreVars, clockVars, codecVars, loopVars>>

\* Line 60-68: the accept handler called without error, for connection c:
\* remote_endpoint() throws on a socket that is no longer connected, and the
\* exception leaves io_context.run() and the thread function (line 230-232).
AcceptComplete(c) ==
    /\ io.pc = "run"
    /\ accept_armed = 1
    /\ conn[c].st = "connected"
    /\ accept_armed' = 0
    /\ conn' = [conn EXCEPT ![c].st = "accepted", ![c].is_open = TRUE]
    /\ io' = IF conn[c].peer = "reset"
             THEN [pc |-> "terminated", sock |-> c]
             ELSE [pc |-> "acc_insert", sock |-> c]
    /\ UNCHANGED <<clients_, clients_mutex_, bc, wq, rx, submitted>>
    /\ UNCHANGED <<coreVars, clockVars, codecVars, loopVars>>

\* Mutant of the accept handler: clients_.insert without the lock_guard.
AcceptInsertUnlocked ==
    /\ io.pc = "acc_insert"
    /\ clients_' = clients_ \cup {io.sock}
    /\ conn' = [conn EXCEPT ![io.sock].probe = TRUE]
    /\ io' = [io EXCEPT !.pc = "acc_rearm"]
    /\ UNCHANGED <<clients_mutex_, accept_armed, bc, wq, rx, submitted>>
    /\ UNCHANGED <<coreVars, clockVars, codecVars, loopVars>>

\* Line 70-76: clients_.insert under the mutex, then
\* setup_disconnect_detection (line 84-104) starts the one-byte read.
AcceptInsert ==
    /\ io.pc = "acc_insert"
    /\ clients_mutex_ = "free"
    /\ clients_' = clients_ \cup {io.sock}
    /\ conn' = [conn EXCEPT ![io.sock].probe = TRUE]
    /\ io' = [io EXCEPT !.pc = "acc_rearm"]
    /\ UNCHANGED <<clients_mutex_, accept_armed, bc, wq, rx, submitted>>
    /\ UNCHANGED <<coreVars, clockVars, codecVars, loopVars>>

\* Line 60, 80: the accept handler called with an error skips the if.
AcceptError ==
    /\ io.pc = "run"
    /\ accept_armed = 1
    /\ accept_armed' = 0
    /\ io' = [pc |-> "acc_rearm", sock |-> 0]
    /\ UNCHANGED <<clients_, clients_mutex_, conn, bc, wq, rx, submitted>>
    /\ UNCHANGED <<coreVars, clockVars, codecVars, loopVars>>

\* Line 57-59, 80: start_accept() at the end of the accept handler.
StartAccept ==
    /\ io.pc = "acc_rearm"
    /\ accept_armed' = accept_armed + 1
    /\ io' = IoIdle
    /\ UNCHANGED <<clients_, clients_mutex_, conn, bc, wq, rx, submitted>>
    /\ UNCHANGED <<coreVars, clockVars, codecVars, loopVars>>

\* Line 88-92: the one-byte read on c completes with an error.
ProbeComplete(c) ==
    /\ io.pc = "run"
    /\ conn[c].probe
    /\ conn[c].peer \in {"eof", "reset"}
    /\ conn' = [conn EXCEPT ![c].probe = FALSE]
    /\ io' = [pc |-> "probe_erase", sock |-> c]
    /\ UNCHANGED <<clients_, clients_mutex_, accept_armed, bc, wq, rx, submitted>>
    /\ UNCHANGED <<coreVars, clockVars, codecVars, loopVars>>

\* Line 94-98: clients_.erase under the mutex.
ProbeErase ==
    /\ io.pc = "probe_erase"
    /\ clients_mutex_ = "free"
    /\ clients_' = clients_ \ {io.sock}
    /\ io' = IoIdle
    /\ UNCHANGED <<clients_mutex_, accept_armed, conn, bc, wq, rx, submitted>>
    /\ UNCHANGED <<coreVars, clockVars, codecVars, loopVars>>

\* The socket becomes writable: the first queued write operation of c is
\* performed, from a string that broadcast_json has destroyed by then or is
\* about to destroy.
KernelSend(c) ==
    /\ io.pc = "run"
    /\ wq[c].rq # <<>>
    /\ LET k == Head(wq[c].rq)
           w == [wq[c] EXCEPT !.rq = Tail(@)]
       IN  IF conn[c].peer # "open"
           THEN /\ wq' = [wq EXCEPT ![c] = [w EXCEPT !.failed = @ \cup {k}]]
                /\ UNCHANGED rx
           ELSE \E n \in 1 .. (Len(Message(k)) - w.off[k]), intact \in BOOLEAN :
                  /\ wq' = [wq EXCEPT ![c] = [w EXCEPT !.posted = @ \cup {k},
                                                       !.off[k] = @ + n]]
                  /\ rx' = [rx EXCEPT ![c] = @ \o Transmit(k, w.off[k], n, intact)]
    /\ UNCHANGED <<clients_, clients_mutex_, accept_armed, conn, io, bc, submitted>>
    /\ UNCHANGED <<coreVars, clockVars, codecVars, loopVars>>

\* async_write's intermediate handler for message k on c: the message is
\* written, or async_write_some is issued for the rest of the (destroyed)
\* string.
WriteContinue(c, k) ==
    /\ io.pc = "run"
    /\ k \in wq[c].posted
    /\ LET w == [wq[c] EXCEPT !.posted = @ \ {k}]
       IN  IF w.off[k] = Len(Message(k))
           THEN /\ wq' = [wq EXCEPT ![c] = w]
                /\ UNCHANGED rx
           ELSE \E n \in 0 .. (Len(Message(k)) - w.off[k]), intact \in BOOLEAN :
                  LET r == AsyncWriteSome(w, rx[c], conn[c].peer, k, n, intact)
                  IN  /\ wq' = [wq EXCEPT ![c] = r.wq]
                      /\ rx' = [rx EXCEPT ![c] = r.rx]
    /\ UNCHANGED <<clients_, clients_mutex_, accept_armed, conn, io, bc, submitted>>
    /\ UNCHANGED <<coreVars, clockVars, codecVars, loopVars>>

\* Line 139-140: broadcast_json takes the mutex.
BroadcastCall ==
    /\ bc.pc = "idle"
    /\ bc.calls < MaxLines
    /\ clients_mutex_ = "free"
    /\ clients_mutex_' = "main"
    /\ bc' = [pc |-> "loop", line |-> bc.calls + 1, todo |-> clients_,
              steps |-> 1, calls |-> bc.calls + 1]
    /\ UNCHANGED <<clients_, accept_armed, conn, io, wq, rx, submitted>>
    /\ UNCHANGED <<coreVars, clockVars, codecVars>>

\* The call made by a thread that is not in the publisher's loop.
BroadcastLock == BroadcastCall /\ UNCHANGED loopVars

\* Line 144-164: one turn of the loop, for client c: a closed socket is
\* erased; else the message is built, async_write is started on it (the
\* socket takes n bytes at once), and the message is destroyed at the end of
\* the turn.
BroadcastSend(c, n) ==
    /\ bc.pc = "loop"
    /\ c \in bc.todo
    /\ n <= Len(Message(bc.line))
    /\ IF ~conn[c].is_open
       THEN /\ clients_' = clients_ \ {c}
            /\ UNCHANGED <<wq, rx, submitted>>
       ELSE /\ LET r == AsyncWriteSome(wq[c], rx[c], conn[c].peer, bc.line, n, TRUE)
               IN  /\ wq' = [wq EXCEPT ![c] = r.wq]
                   /\ rx' = [rx EXCEPT ![c] = r.rx]
            /\ submitted' = [submitted EXCEPT ![c] = Append(@, bc.line)]
            /\ UNCHANGED clients_
    /\ bc' = [bc EXCEPT !.todo = @ \ {c}, !.steps = @ + 1]
    /\ UNCHANGED <<clients_mutex_, accept_armed, conn, io>>
    /\ UNCHANGED <<coreVars, clockVars, codecVars, loopVars>>

\* Mutant of the end of broadcast_json: it waits for its writes to be sent.
BroadcastReturnWaits ==
    /\ bc.pc = "loop"
    /\ bc.todo = {}
    /\ \A c \in Socks : wq[c].rq = <<>>
    /\ clients_mutex_' = "free"
    /\ bc' = BcIdle(bc.calls)
    /\ UNCHANGED <<clients_, accept_armed, conn, io, wq, rx, submitted>>
    /\ UNCHANGED <<coreVars, clockVars, codecVars, loopVars>>

\* Line 143, 165: the loop ends, the lock_guard releases the mutex.
BroadcastReturn ==
    /\ bc.pc = "loop"
    /\ bc.todo = {}
    /\ clients_mutex_' = "free"
    /\ bc' = BcIdle(bc.calls)
    /\ UNCHANGED <<clients_, accept_armed, conn, io, wq, rx, submitted>>
    /\ UNCHANGED <<coreVars, clockVars, codecVars, loopVars>>

\* Line 52-53, 227-232: the server built, its first accept started, the
\* thread in io_context.run().
InitServer ==
    /\ clients_ = {}
    /\ clients_mutex_ = "free"
    /\ accept_armed = 1
    /\ conn = [c \in Socks |-> NoConn]
    /\ io = IoIdle
    /\ bc = BcIdle(0)
    /\ wq = [c \in Socks |-> NoWrites]
    /\ rx = [c \in Socks |-> <<>>]
    /\ submitted = [c \in Socks |-> <<>>]

(***************************************************************************)
(* FastClock (include/common/fast_clock.hpp): the constructing thread, the *)
(* update_loop thread, and a thread calling now().                         *)
(***************************************************************************)
\* Nanoseconds per tick of std::chrono::high_resolution_clock.
NsPerTick == 1

\* Mutant of the conversion: the count is kept in too narrow an integer.
ToNsNarrow(t) == (t * NsPerTick) % 2

\* duration_cast<nanoseconds>(now_time.time_since_epoch()).count()
ToNs(t) == t * NsPerTick

\* The object after its member initialisers (line 42, 48), the constructor
\* body about to run.
\* stores counts the stores of update_loop, late those of them made after the
\* destructor has cleared running.
NewClock == [ctor |-> "c_read", ns_count |-> 0, upd |-> "none", upd_ns_count |-> 0,
             stores |-> 0, late |-> 0]

\* The underlying clock advances.
Tick ==
    /\ wall < MaxTime
    /\ wall' = wall + 1
    /\ UNCHANGED <<cached_time_ns, running, fclock, nows>>
    /\ UNCHANGED <<coreVars, tcpVars, codecVars, loopVars>>

\* Line 74-78: the constructor reads the clock.
ClockCtorRead ==
    /\ fclock.ctor = "c_read"
    /\ fclock' = [fclock EXCEPT !.ctor = "c_store", !.ns_count = ToNs(wall)]
    /\ UNCHANGED <<cached_time_ns, running, wall, nows>>
    /\ UNCHANGED <<coreVars, tcpVars, codecVars, loopVars>>

\* Line 79: cached_time_ns.store(ns_count).
ClockCtorStore ==
    /\ fclock.ctor = "c_store"
    /\ cached_time_ns' = fclock.ns_count
    /\ fclock' = [fclock EXCEPT !.ctor = "c_run"]
    /\ UNCHANGED <<running, wall, nows>>
    /\ UNCHANGED <<coreVars, tcpVars, codecVars, loopVars>>

\* Line 82-83: running.store(true) and the start of the update thread.
ClockCtorStart ==
    /\ fclock.ctor = "c_run"
    /\ running' = TRUE
    /\ fclock' = [fclock EXCEPT !.ctor = "done", !.upd = "check"]
    /\ UNCHANGED <<cached_time_ns, wall, nows>>
    /\ UNCHANGED <<coreVars, tcpVars, codecVars, loopVars>>

\* Mutant of update_loop: the loop does not test running.
UpdateReadIgnoresStop ==
    /\ fclock.upd = "check"
    /\ fclock' = [fclock EXCEPT !.upd = "store", !.upd_ns_count = ToNs(wall)]
    /\ UNCHANGED <<cached_time_ns, running, wall, nows>>
    /\ UNCHANGED <<coreVars, tcpVars, codecVars, loopVars>>

\* Line 53-59: update_loop tests running and reads the clock, or leaves.
UpdateRead ==
    /\ fclock.upd = "check"
    /\ fclock' = IF running
                 THEN [fclock EXCEPT !.upd = "store", !.upd_ns_count = ToNs(wall)]
                 ELSE [fclock EXCEPT !.upd = "exited"]
    /\ UNCHANGED <<cached_time_ns, running, wall, nows>>
    /\ UNCHANGED <<coreVars, tcpVars, codecVars, loopVars>>

\* Line 62-66: cached_time_ns.store(ns_count), then the 200 ms sleep.
UpdateStore ==
    /\ fclock.upd = "store"
    /\ cached_time_ns' = fclock.upd_ns_count
    /\ fclock' = [fclock EXCEPT !.upd = "check",
                                !.stores = IF @ < MaxNows THEN @ + 1 ELSE @,
                                !.late = IF ~running /\ @ < MaxNows THEN @ + 1 ELSE @]
    /\ UNCHANGED <<running, wall, nows>>
    /\ UNCHANGED <<coreVars, tcpVars, codecVars, loopVars>>

\* Line 89-91: the destructor's running.store(false).
ClockStop ==
    /\ fclock.ctor = "done"
    /\ running' = FALSE
    /\ fclock' = [fclock EXCEPT !.ctor = "joining"]
    /\ UNCHANGED <<cached_time_ns, wall, nows>>
    /\ UNCHANGED <<coreVars, tcpVars, codecVars, loopVars>>

\* Line 94-96: update_thread.join() returns once update_loop has left.
ClockJoin ==
    /\ fclock.ctor = "joining"
    /\ fclock.upd = "exited"
    /\ fclock' = [fclock EXCEPT !.ctor = "destroyed"]
    /\ UNCHANGED <<cached_time_ns, running, wall, nows>>
    /\ UNCHANGED <<coreVars, tcpVars, codecVars, loopVars>>

\* Line 114-116: now(), called by one thread again and again, from the
\* member initialisers on and as long as the object lives.
Now ==
    /\ fclock.ctor # "destroyed"
    /\ Len(nows) < MaxNows
    /\ nows' = Append(nows, cached_time_ns)
    /\ UNCHANGED <<cached_time_ns, running, wall, fclock>>
    /\ UNCHANGED <<coreVars, tcpVars, codecVars, loopVars>>

InitClock ==
    /\ cached_time_ns = 0
    /\ running = FALSE
    /\ wall = 1
    /\ fclock = NewClock
    /\ nows = <<>>

(***************************************************************************)
(* MarketData (include/common/market_data.hpp): the four-argument          *)
(* constructor, to_json and from_json.  A byte is a number; a symbol is a  *)
(* sequence of bytes.  A double is <<"finite", h>> for the value h/2,      *)
(* <<"nan", 0>>, or <<"inf", 1>> and <<"inf", -1>> for the infinities.     *)
(***************************************************************************)
\* char instrument[INSTRUMENT_MAX_LEN]: 16 bytes in the source.
INSTRUMENT_MAX_LEN == InstrumentBytes

NUL == 0
QUOTE == 34
BACKSLASH == 92
LETTER_U == 117
\* The bytes of the model: NUL, '"', 'A', and 0xC8, which alone is no UTF-8.
Chars == {NUL, QUOTE, 65, 200}

\* The C strings of at most n bytes, and the std::strings of at most n bytes.
SeqsUpTo(S, n) == UNION {[1 .. k -> S] : k \in 0 .. n}
CStrings == SeqsUpTo(Chars \ {NUL}, MaxSymLen)
Strings == SeqsUpTo(Chars, MaxSymLen)

Doubles == {<<"finite", 3>>, <<"finite", -4>>, <<"nan", 0>>, <<"inf", 1>>}
Timestamps == {-1, 5}

IsFinite(d) == d[1] = "finite"
\* operator== of two doubles: a NaN equals nothing.
DoubleEq(d, e) == d[1] # "nan" /\ e[1] # "nan" /\ d = e
\* static_cast<double>(n) and static_cast<int64_t>(d): towards zero.
IntToDouble(n) == <<"finite", 2 * n>>
DoubleToInt(d) == IF d[2] >= 0 THEN d[2] \div 2 ELSE -((-d[2]) \div 2)

\* The bytes of s before its first zero byte: what a const char* names.
CStr(s) ==
    LET z == {i \in 1 .. Len(s) : s[i] = NUL}
    IN  IF z = {} THEN s
        ELSE SubSeq(s, 1, (CHOOSE i \in z : \A j \in z : i <= j) - 1)

\* Mutant of strncpy: no padding after the copied bytes.
StrncpyNoPad(dest, src, n) ==
    [i \in 1 .. Len(dest) |->
        IF i <= n /\ i <= Len(CStr(src)) THEN CStr(src)[i] ELSE dest[i]]

\* std::strncpy(dest, src, n): the bytes of the C string src, at most n, and
\* zero bytes up to n.
Strncpy(dest, src, n) ==
    [i \in 1 .. Len(dest) |->
        IF i > n THEN dest[i]
        ELSE IF i <= Len(CStr(src)) THEN CStr(src)[i]
        ELSE NUL]

\* Line 91-96: MarketData().
DefaultMarketData ==
    [instrument |-> [i \in 1 .. INSTRUMENT_MAX_LEN |-> NUL],
     bid |-> <<"finite", 0>>, ask |-> <<"finite", 0>>, timestamp_ns |-> 0]

\* Line 100-108: MarketData(inst, b, a, ts); the array holds junk before the
\* strncpy.
MarketDataCtor(inst, b, a, ts, junk) ==
    [instrument |-> [Strncpy([i \in 1 .. INSTRUMENT_MAX_LEN |-> junk], inst,
                             INSTRUMENT_MAX_LEN - 1)
                        EXCEPT ![INSTRUMENT_MAX_LEN] = NUL],
     bid |-> b, ask |-> a, timestamp_ns |-> ts]

(***************************************************************************)
(* nlohmann::json as market_data.hpp uses it.  A JSON value is             *)
(* <<type, payload>>; an object's payload is a function from member names  *)
(* to values, an array is always the empty one.  A JSON text is a sequence *)
(* of tokens <<kind, payload>>; a string token carries the characters      *)
(* between its quotes, escapes included.  Member names are plain words.    *)
(***************************************************************************)
JNull == <<"null", 0>>
\* std::map order of the member names.
NameOrder == <<"ask", "bid", "instrument", "invalid", "timestamp_ns">>
FieldNames == {"instrument", "bid", "ask", "timestamp_ns"}

\* Mutant of the string escape of dump(): nothing is escaped.
EscapeStringRaw(s) == s

\* dump() of a string's characters: '"' and '\' get a backslash, a control
\* character becomes \u and its code.
RECURSIVE EscapeString(_)
EscapeString(s) ==
    IF s = <<>> THEN <<>>
    ELSE LET b == Head(s)
         IN  (IF b = QUOTE \/ b = BACKSLASH THEN <<BACKSLASH, b>>
              ELSE IF b < 32 THEN <<BACKSLASH, LETTER_U, b>>
              ELSE <<b>>) \o EscapeString(Tail(s))

\* parse() of the characters of a string token: [ok, s].
RECURSIVE UnescapeString(_)
UnescapeString(e) ==
    IF e = <<>> THEN [ok |-> TRUE, s |-> <<>>]
    ELSE LET b == Head(e)
             one == IF b = BACKSLASH
                    THEN IF Len(e) >= 2 /\ e[2] \in {QUOTE, BACKSLASH}
                         THEN [ok |-> TRUE, c |-> e[2], rest |-> 3]
                         ELSE IF Len(e) >= 3 /\ e[2] = LETTER_U /\ e[3] < 128
                         THEN [ok |-> TRUE, c |-> e[3], rest |-> 4]
                         ELSE [ok |-> FALSE, c |-> NUL, rest |-> 2]
                    ELSE IF b < 32 \/ b = QUOTE \/ b >= 128
                    THEN [ok |-> FALSE, c |-> NUL, rest |-> 2]
                    ELSE [ok |-> TRUE, c |-> b, rest |-> 2]
         IN  IF ~one.ok THEN [ok |-> FALSE, s |-> <<>>]
             ELSE CHOOSE res \in
                    {[ok |-> r.ok, s |-> IF r.ok THEN <<one.c>> \o r.s ELSE <<>>]
                       : r \in {UnescapeString(SubSeq(e, one.rest, Len(e)))}} : TRUE

\* dump() of a value that is no object with members: [ok, toks]; a string
\* that is no UTF-8 makes dump() throw type_error 316.
DumpValue(v) ==
    CASE v[1] = "null" -> [ok |-> TRUE, toks |-> <<<<"null", 0>>>>]
      [] v[1] = "boolean" -> [ok |-> TRUE, toks |-> <<<<"bool", v[2]>>>>]
      [] v[1] = "string" ->
            IF \E i \in 1 .. Len(v[2]) : v[2][i] >= 128
            THEN [ok |-> FALSE, toks |-> <<>>]
            ELSE [ok |-> TRUE, toks |-> <<<<"str", EscapeString(v[2])>>>>]
      [] v[1] \in {"number_integer", "number_unsigned"} ->
            [ok |-> TRUE, toks |-> <<<<"int", v[2]>>>>]
      [] v[1] = "number_float" ->
            IF IsFinite(v[2])
            THEN [ok |-> TRUE, toks |-> <<<<"float", v[2][2]>>>>]
            ELSE [ok |-> TRUE, toks |-> <<<<"null", 0>>>>]
      [] v[1] = "array" -> [ok |-> TRUE, toks |-> <<<<"[", 0>>, <<"]", 0>>>>]
      [] OTHER -> [ok |-> TRUE, toks |-> <<<<"{", 0>>, <<"}", 0>>>>]

\* dump() of the members of m named from the i-th name of NameOrder on.
RECURSIVE DumpMembers(_, _, _)
DumpMembers(m, i, first) ==
    IF i > Len(NameOrder) THEN [ok |-> TRUE, toks |-> <<>>]
    ELSE IF NameOrder[i] \notin DOMAIN m THEN DumpMembers(m, i + 1, first)
    ELSE LET v == DumpValue(m[NameOrder[i]])
             r == DumpMembers(m, i + 1, FALSE)
         IN  IF v.ok /\ r.ok
             THEN [ok |-> TRUE,
                   toks |-> (IF first THEN <<>> ELSE <<<<",", 0>>>>)
                            \o <<<<"name", NameOrder[i]>>, <<":", 0>>>>
                            \o v.toks \o r.toks]
             ELSE [ok |-> FALSE, toks |-> <<>>]

\* j.dump() of an object.
DumpObject(m) ==
    LET r == DumpMembers(m, 1, TRUE)
    IN  [ok |-> r.ok,
         toks |-> IF r.ok THEN <<<<"{", 0>>>> \o r.toks \o <<<<"}", 0>>>> ELSE <<>>]

\* parse() of the value that starts at token i: [ok, v, next].
ValueAt(toks, i) ==
    LET k == toks[i][1]
        bad == [ok |-> FALSE, v |-> JNull, next |-> i]
    IN  CASE k = "null" -> [ok |-> TRUE, v |-> JNull, next |-> i + 1]
          [] k = "bool" -> [ok |-> TRUE, v |-> <<"boolean", toks[i][2]>>, next |-> i + 1]
          [] k = "str" ->
                LET u == UnescapeString(toks[i][2])
                IN  IF u.ok THEN [ok |-> TRUE, v |-> <<"string", u.s>>, next |-> i + 1]
                    ELSE bad
          [] k = "int" ->
                [ok |-> TRUE,
                 v |-> IF toks[i][2] < 0 THEN <<"number_integer", toks[i][2]>>
                       ELSE <<"number_unsigned", toks[i][2]>>,
                 next |-> i + 1]
          [] k = "float" ->
                [ok |-> TRUE, v |-> <<"number_float", <<"finite", toks[i][2]>>>>,
                 next |-> i + 1]
          [] k = "[" ->
                IF i < Len(toks) /\ toks[i + 1][1] = "]"
                THEN [ok |-> TRUE, v |-> <<"array", <<>>>>, next |-> i + 2]
                ELSE bad
          [] k = "{" ->
                IF i < Len(toks) /\ toks[i + 1][1] = "}"
                THEN [ok |-> TRUE, v |-> <<"object", <<>>>>, next |-> i + 2]
                ELSE bad
          [] OTHER -> bad

\* The members m and the member name with value v; a name given twice keeps
\* its last value.
WithMember(m, name, v) ==
    [n \in (DOMAIN m) \cup {name} |-> IF n = name THEN v ELSE m[n]]

\* parse() of the members of an object from token i on, m being the members
\* parsed so far.  (The value at i + 2 and the members with it are bound as
\* elements of a set, so that each is worked out once.)
RECURSIVE ParseMembers(_, _, _)
ParseMembers(toks, i, m) ==
    IF i + 3 > Len(toks) \/ toks[i][1] # "name" \/ toks[i + 1][1] # ":"
    THEN [ok |-> FALSE, m |-> <<>>]
    ELSE CHOOSE res \in UNION {
            {IF ~r.ok \/ r.next > Len(toks) THEN [ok |-> FALSE, m |-> <<>>]
             ELSE IF toks[r.next][1] = "}"
             THEN [ok |-> r.next = Len(toks), m |-> m2]
             ELSE IF toks[r.next][1] = ","
             THEN ParseMembers(toks, r.next + 1, m2)
             ELSE [ok |-> FALSE, m |-> <<>>]
               : m2 \in {WithMember(m, toks[i][2], r.v)}}
               : r \in {ValueAt(toks, i + 2)}} : TRUE

\* nlohmann::json::parse(json_str): [ok, j]; not ok is a parse_error thrown.
Parse(toks) ==
    IF toks = <<>> THEN [ok |-> FALSE, j |-> JNull]
    ELSE IF toks[1][1] = "{" /\ (Len(toks) < 2 \/ toks[2][1] # "}")
    THEN CHOOSE res \in
           {[ok |-> r.ok, j |-> IF r.ok THEN <<"object", r.m>> ELSE JNull]
              : r \in {ParseMembers(toks, 2, <<>>)}} : TRUE
    ELSE LET r == ValueAt(toks, 1)
         IN  IF r.ok /\ r.next = Len(toks) + 1 THEN [ok |-> TRUE, j |-> r.v]
             ELSE [ok |-> FALSE, j |-> JNull]

\* j[name] of a non-const json: [ok, v]; a member that is missing is made,
\* null; a null j becomes an object; any other j throws type_error 305.
Subscript(j, name) ==
    IF j[1] = "object"
    THEN [ok |-> TRUE, v |-> IF name \in DOMAIN j[2] THEN j[2][name] ELSE JNull]
    ELSE IF j[1] = "null" THEN [ok |-> TRUE, v |-> JNull]
    ELSE [ok |-> FALSE, v |-> JNull]

\* get<std::string>(), get<double>(), get<int64_t>(): [ok, x]; not ok is
\* type_error 302 thrown.  The arithmetic conversions take every number.
GetString(v) == [ok |-> v[1] = "string", x |-> IF v[1] = "string" THEN v[2] ELSE <<>>]

IsNumber(v) == v[1] \in {"number_integer", "number_unsigned", "number_float"}

GetDouble(v) ==
    [ok |-> IsNumber(v),
     x |-> IF v[1] = "number_float" THEN v[2]
           ELSE IF IsNumber(v) THEN IntToDouble(v[2])
           ELSE <<"finite", 0>>]

GetInt64(v) ==
    [ok |-> IsNumber(v),
     x |-> IF v[1] = "number_float" THEN DoubleToInt(v[2])
           ELSE IF IsNumber(v) THEN v[2]
           ELSE 0]

\* Line 126-133: to_json(): [ok, toks]; not ok is the exception of dump().
to_json(md) ==
    DumpObject([n \in FieldNames |->
        CASE n = "instrument" -> <<"string", CStr(md.instrument)>>
          [] n = "bid" -> <<"number_float", md.bid>>
          [] n = "ask" -> <<"number_float", md.ask>>
          [] OTHER -> <<"number_integer", md.timestamp_ns>>])

\* Line 142-155: from_json once parse() has returned or thrown (p).
FromParsed(p, out) ==
    LET inst == GetString(Subscript(p.j, "instrument").v)
        o1 == [out EXCEPT !.instrument =
                  [Strncpy(out.instrument, inst.x, INSTRUMENT_MAX_LEN - 1)
                      EXCEPT ![INSTRUMENT_MAX_LEN] = NUL]]
        b == GetDouble(Subscript(p.j, "bid").v)
        o2 == [o1 EXCEPT !.bid = b.x]
        a == GetDouble(Subscript(p.j, "ask").v)
        o3 == [o2 EXCEPT !.ask = a.x]
        ts == GetInt64(Subscript(p.j, "timestamp_ns").v)
        o4 == [o3 EXCEPT !.timestamp_ns = ts.x]
    IN  IF ~p.ok \/ ~Subscript(p.j, "instrument").ok \/ ~inst.ok
        THEN [ret |-> FALSE, out |-> out]
        ELSE IF ~b.ok THEN [ret |-> FALSE, out |-> o1]
        ELSE IF ~a.ok THEN [ret |-> FALSE, out |-> o2]
        ELSE IF ~ts.ok THEN [ret |-> FALSE, out |-> o3]
        ELSE [ret |-> TRUE, out |-> o4]

\* Line 138-156: from_json(json_str, out): [ret, out]; every exception ends
\* in the catch (...) and out keeps the members assigned before it.
from_json(json_str, out) ==
    CHOOSE res \in {FromParsed(p, out) : p \in {Parse(json_str)}} : TRUE

(***************************************************************************)
(* The calls on one record: it is built and encoded and the text decoded,  *)
(* or a text comes from elsewhere and is decoded.                          *)
(***************************************************************************)
NoCodec == [pc |-> "new", inst |-> <<>>, md |-> DefaultMarketData,
            json_str |-> <<>>, out |-> DefaultMarketData, ret |-> "none"]

\* MarketData market_data(inst, b, a, ts).
Build(inst, b, a, ts, junk) ==
    /\ codec.pc = "new"
    /\ codec' = [codec EXCEPT !.pc = "built", !.inst = inst,
                              !.md = MarketDataCtor(inst, b, a, ts, junk)]
    /\ UNCHANGED <<coreVars, tcpVars, clockVars, loopVars, tc>>

\* json_str = market_data.to_json().
Encode ==
    /\ codec.pc = "built"
    /\ \E r \in {to_json(codec.md)} :
           codec' = IF r.ok
                    THEN [codec EXCEPT !.pc = "encoded", !.json_str = r.toks]
                    ELSE [codec EXCEPT !.pc = "threw"]
    /\ UNCHANGED <<coreVars, tcpVars, clockVars, loopVars, tc>>

\* A line read from a connection.
Receive(text) ==
    /\ codec.pc = "new"
    /\ codec' = [codec EXCEPT !.pc = "received", !.json_str = text]
    /\ UNCHANGED <<coreVars, tcpVars, clockVars, loopVars, tc>>

\* MarketData out; ret = MarketData::from_json(json_str, out).
Decode ==
    /\ codec.pc \in {"encoded", "received"}
    /\ \E r \in {from_json(codec.json_str, DefaultMarketData)} :
           codec' = [codec EXCEPT
                       !.pc = IF codec.pc = "encoded" THEN "round_trip" ELSE "decoded",
                       !.out = r.out,
                       !.ret = IF r.ret THEN "true" ELSE "false"]
    /\ UNCHANGED <<coreVars, tcpVars, clockVars, loopVars, tc>>

(***************************************************************************)
(* The TCP consumer (src/tcp_consumer/main.cpp): its receive loop, line    *)
(* 57-158, and the publisher's end of its connection.  inbox holds the     *)
(* complete lines sent and not yet read, without their newline.            *)
(***************************************************************************)
\* A line to_json() wrote, and lines it did not write.
GoodLine ==
    to_json(MarketDataCtor(<<65>>, <<"finite", 3>>, <<"finite", -4>>, 5, GARBAGE)).toks
EmptyLine == <<>>
LineTexts ==
    {EmptyLine, GoodLine, <<<<"word", 0>>>>,
     <<<<"{", 0>>, <<"name", "instrument">>, <<":", 0>>, <<"str", <<65>>>>, <<"}", 0>>>>}

\* What ends a connection under the consumer's read.
TransportErrors == {"eof", "connection_reset", "other"}

\* Line 48-50: the counters and the empty buffer, after connect().  verdicts
\* is the history of the non-empty lines read and of what from_json returned.
NoTc ==
    [pc |-> "read", message_count |-> 0, parse_errors |-> 0, inbox |-> <<>>,
     peer |-> "open", sent |-> 0, nonempty |-> 0, verdicts |-> <<>>, ended |-> "none"]

\* The publisher's end writes a line.
PeerSend(text) ==
    /\ tc.peer = "open"
    /\ tc.sent < MaxSent
    /\ tc' = [tc EXCEPT !.inbox = Append(@, text), !.sent = @ + 1,
                        !.nonempty = IF text # EmptyLine THEN @ + 1 ELSE @]
    /\ UNCHANGED <<coreVars, tcpVars, clockVars, loopVars, codec>>

\* The publisher's end closes or resets the connection, or the network fails.
PeerEnd(e) ==
    /\ tc.peer = "open"
    /\ tc' = [tc EXCEPT !.peer = e]
    /\ UNCHANGED <<coreVars, tcpVars, clockVars, loopVars, codec>>

\* Mutant of the else branch of the decode: a failing line ends the loop.
TcLineStopsOnFailure ==
    /\ tc.pc = "read"
    /\ tc.inbox # <<>>
    /\ LET json_line == Head(tc.inbox)
           rest == [tc EXCEPT !.inbox = Tail(@)]
       IN  IF json_line = EmptyLine
           THEN tc' = rest
           ELSE \E r \in {from_json(json_line, DefaultMarketData)} :
                  LET message_count == tc.message_count + 1
                  IN  tc' = [rest EXCEPT
                               !.message_count = message_count,
                               !.parse_errors = IF r.ret THEN @ ELSE @ + 1,
                               !.verdicts = Append(@, <<json_line, r.ret>>),
                               !.pc = IF message_count >= LineLimit \/ ~r.ret
                                      THEN "done" ELSE "read",
                               !.ended = IF message_count >= LineLimit \/ ~r.ret
                                         THEN "count" ELSE @]
    /\ UNCHANGED <<coreVars, tcpVars, clockVars, loopVars, codec>>

\* Line 62-141: one turn of the loop in which read_until returns: the line
\* is taken from the buffer; an empty line is skipped; else message_count++,
\* a new MarketData is decoded from the line, parse_errors++ when from_json
\* returned false, and the loop ends when message_count has reached
\* LineLimit.
TcLine ==
    /\ tc.pc = "read"
    /\ tc.inbox # <<>>
    /\ LET json_line == Head(tc.inbox)
           rest == [tc EXCEPT !.inbox = Tail(@)]
       IN  IF json_line = EmptyLine
           THEN tc' = rest
           ELSE \E r \in {from_json(json_line, DefaultMarketData)} :
                  LET message_count == tc.message_count + 1
                  IN  tc' = [rest EXCEPT
                               !.message_count = message_count,
                               !.parse_errors = IF r.ret THEN @ ELSE @ + 1,
                               !.verdicts = Append(@, <<json_line, r.ret>>),
                               !.pc = IF message_count >= LineLimit
                                      THEN "done" ELSE "read",
                               !.ended = IF message_count >= LineLimit
                                         THEN "count" ELSE @]
    /\ UNCHANGED <<coreVars, tcpVars, clockVars, loopVars, codec>>

\* Mutant of the catch clauses: the loop goes on after a transport error.
TcErrorRetries ==
    /\ tc.pc = "read"
    /\ tc.peer # "open"
    /\ tc.inbox = <<>> \/ tc.peer = "connection_reset"
    /\ tc' = [tc EXCEPT !.ended = tc.peer, !.inbox = <<>>]
    /\ UNCHANGED <<coreVars, tcpVars, clockVars, loopVars, codec>>

\* Line 62, 143-153: read_until throws system_error: the lines sent have
\* all been read, or the connection was reset with lines unread; the loop
\* ends.
TcError ==
    /\ tc.pc = "read"
    /\ tc.peer # "open"
    /\ tc.inbox = <<>> \/ tc.peer = "connection_reset"
    /\ tc' = [tc EXCEPT !.pc = "done", !.ended = tc.peer, !.inbox = <<>>]
    /\ UNCHANGED <<coreVars, tcpVars, clockVars, loopVars, codec>>

InitCodec ==
    /\ codec = NoCodec
    /\ tc = NoTc

(***************************************************************************)
(* The publisher's loop (src/publisher/main.cpp, line 296-354).            *)
(***************************************************************************)
\* The thread's place in the loop, the market_data of the turn, message_count,
\* overflow_count, (history) the number of turns of the loop completed, and
\* limit, the message_count at which the loop ends (line 348).
LoopIdle ==
    [pc |-> "none", md |-> ZeroRecord, message_count |-> 0, n |-> 0,
     overflow_count |-> 0, iterations |-> 0, limit |-> RunLimit]

\* Line 167-170: get_client_count() called by the main thread outside its
\* loop: the size of clients_, read under the mutex.
GetClientCount ==
    /\ pub.pc = "none"
    /\ bc.pc = "idle"
    /\ clients_mutex_ = "free"
    /\ pub' = [pub EXCEPT !.n = Cardinality(clients_)]
    /\ UNCHANGED <<coreVars, tcpVars, clockVars, codecVars, handed, meas>>

\* Line 299-318: a record is built and offered to the ring: the call of
\* try_write and its first load.
LoopOffer(p) ==
    /\ pub.pc = "top"
    /\ bc.calls < MaxLines
    /\ pub.overflow_count < MaxOverflows
    /\ TryWriteCall(p)
    /\ pub' = [pub EXCEPT !.pc = "try_write", !.md = MakeRecord(p)]
    /\ UNCHANGED <<handed, meas>>

\* Mutant of the test of line 322: the record is broadcast whatever the count.
LoopGetCountAlways ==
    /\ pub.pc = "try_write"
    /\ prod.pc = "idle"
    /\ prod.ret = "true"
    /\ clients_mutex_ = "free"
    /\ pub' = [pub EXCEPT !.pc = "broadcast",
                          !.n = Cardinality(clients_),
                          !.message_count = @ + 1]
    /\ UNCHANGED <<coreVars, tcpVars, clockVars, codecVars, handed, meas>>

\* Line 318-322: try_write returned true; message_count++ and
\* get_client_count() (line 167-170: the size of clients_ under the mutex).
LoopGetCount ==
    /\ pub.pc = "try_write"
    /\ prod.pc = "idle"
    /\ prod.ret = "true"
    /\ clients_mutex_ = "free"
    /\ pub' = [pub EXCEPT !.pc = IF Cardinality(clients_) > 0
                                 THEN "broadcast" ELSE "status",
                          !.n = Cardinality(clients_),
                          !.message_count = @ + 1]
    /\ UNCHANGED <<coreVars, tcpVars, clockVars, codecVars, handed, meas>>

\* Mutant of the else branch: the dropped record is counted as a message.
LoopOverflowCounted ==
    /\ pub.pc = "try_write"
    /\ prod.pc = "idle"
    /\ prod.ret = "false"
    /\ pub' = [pub EXCEPT !.pc = "sleep", !.message_count = @ + 1,
                          !.overflow_count = @ + 1]
    /\ UNCHANGED <<coreVars, tcpVars, clockVars, codecVars, handed, meas>>

\* Line 336-342: try_write returned false; overflow_count++, the record is
\* dropped.
LoopOverflow ==
    /\ pub.pc = "try_write"
    /\ prod.pc = "idle"
    /\ prod.ret = "false"
    /\ pub' = [pub EXCEPT !.pc = "sleep", !.overflow_count = @ + 1]
    /\ UNCHANGED <<coreVars, tcpVars, clockVars, codecVars, handed, meas>>

\* Line 323-324: to_json() of the record and the call of broadcast_json.
LoopBroadcast ==
    /\ pub.pc = "broadcast"
    /\ BroadcastCall
    /\ handed' = Append(handed, pub.md)
    /\ pub' = [pub EXCEPT !.pc = "in_broadcast"]
    /\ UNCHANGED meas

\* Line 327-335: every StatusEvery messages the status line calls
\* available_for_read() and get_client_count().
LoopStatus ==
    /\ pub.pc = "status" \/ (pub.pc = "in_broadcast" /\ bc.pc = "idle")
    /\ IF pub.message_count % StatusEvery = 0
       THEN /\ clients_mutex_ = "free"
            /\ insp' = [insp EXCEPT
                          !.called = TRUE,
                          !.available_for_read = available_for_read(write_idx, read_idx)]
            /\ pub' = [pub EXCEPT !.pc = "sleep", !.n = Cardinality(clients_)]
       ELSE /\ pub' = [pub EXCEPT !.pc = "sleep"]
            /\ UNCHANGED insp
    /\ UNCHANGED <<ringVars, prod, cons, histVars, shmVars,
                 tcpVars, clockVars, codecVars, handed, meas>>

\* Mutant of the test of line 348: the loop ends one message later.
LoopSleepLate ==
    /\ pub.pc = "sleep"
    /\ pub' = [pub EXCEPT !.pc = IF pub.message_count >= pub.limit + 1
                                 THEN "done" ELSE "top",
                          !.iterations = @ + 1]
    /\ UNCHANGED <<coreVars, tcpVars, clockVars, codecVars, handed, meas>>

\* Line 345-353: sleep_for, then the loop ends when message_count has reached
\* the limit.
LoopSleep ==
    /\ pub.pc = "sleep"
    /\ pub' = [pub EXCEPT !.pc = IF pub.message_count >= pub.limit
                                 THEN "done" ELSE "top",
                          !.iterations = @ + 1]
    /\ UNCHANGED <<coreVars, tcpVars, clockVars, codecVars, handed, meas>>

(***************************************************************************)
(* The latency measurement.  The publisher stamps each record with now()   *)
(* of its FastClock (publisher main.cpp line 238, 305-308); the            *)
(* shared-memory consumer subtracts the stamp from now() of its own        *)
(* FastClock (shm_consumer main.cpp line 32, 77-80), the TCP consumer from *)
(* a reading of high_resolution_clock (tcp_consumer main.cpp line 73-85).  *)
(* The consumer's FastClock is the object of the FastClock actions above;  *)
(* the publisher's is kept in meas.  A record reaches a consumer after it  *)
(* has been stamped; the consumers receive the records in order.           *)
(***************************************************************************)
\* The publisher's clock constructed at the first reading of the clock, its
\* update_loop about to run; no record stamped yet.
NoMeas ==
    [cached_time_ns |-> ToNs(1), upd |-> "check", upd_ns_count |-> 0,
     stamps |-> <<>>, shm_latency |-> <<>>, tcp_latency |-> <<>>]

\* fast_clock.hpp line 53-59, in the publisher: update_loop reads the clock.
PubUpdateRead ==
    /\ meas.upd = "check"
    /\ meas' = [meas EXCEPT !.upd = "store", !.upd_ns_count = ToNs(wall)]
    /\ UNCHANGED <<coreVars, tcpVars, clockVars, codecVars, pub, handed>>

\* fast_clock.hpp line 62-66, in the publisher: cached_time_ns.store(ns_count).
PubUpdateStore ==
    /\ meas.upd = "store"
    /\ meas' = [meas EXCEPT !.upd = "check", !.cached_time_ns = meas.upd_ns_count]
    /\ UNCHANGED <<coreVars, tcpVars, clockVars, codecVars, pub, handed>>

\* publisher main.cpp line 305-308: timestamp = fast_clock.now(), and the
\* record made with it is published.
PubStamp ==
    /\ Len(meas.stamps) < MaxNows
    /\ meas' = [meas EXCEPT !.stamps = Append(@, meas.cached_time_ns)]
    /\ UNCHANGED <<coreVars, tcpVars, clockVars, codecVars, pub, handed>>

\* shm_consumer main.cpp line 77-80: try_read returned the next record;
\* receive_time = fast_clock.now(); latency_ns = receive_time - timestamp_ns.
ShmLatency ==
    /\ fclock.ctor = "done"
    /\ Len(meas.shm_latency) < Len(meas.stamps)
    /\ LET market_data_timestamp_ns == meas.stamps[Len(meas.shm_latency) + 1]
           receive_time == cached_time_ns
       IN  meas' = [meas EXCEPT
                      !.shm_latency = Append(@, receive_time - market_data_timestamp_ns)]
    /\ UNCHANGED <<coreVars, tcpVars, clockVars, codecVars, pub, handed>>

\* tcp_consumer main.cpp line 73-85: the line of the next record was read;
\* receive_time_ns is a reading of high_resolution_clock.
TcpLatency ==
    /\ Len(meas.tcp_latency) < Len(meas.stamps)
    /\ LET market_data_timestamp_ns == meas.stamps[Len(meas.tcp_latency) + 1]
           receive_time_ns == ToNs(wall)
       IN  meas' = [meas EXCEPT
                      !.tcp_latency = Append(@, receive_time_ns - market_data_timestamp_ns)]
    /\ UNCHANGED <<coreVars, tcpVars, clockVars, codecVars, pub, handed>>

InitLoop ==
    /\ pub = LoopIdle
    /\ handed = <<>>
    /\ meas = NoMeas

(***************************************************************************)
(* Spec: a RingBuffer object shared by a producer and a consumer thread.   *)
(***************************************************************************)
InitRing ==
    /\ write_idx = 0
    /\ read_idx = 0
    /\ buffer = [i \in Slots |-> ZeroRecord]
    /\ accepted = <<>>
    /\ returned = <<>>
    /\ insp = NoInsp

Init ==
    /\ InitRing
    /\ prod = ProdIdle("direct", "none")
    /\ cons = ConsIdle("direct", ZeroRecord, "none")
    /\ InitShm
    /\ InitServer
    /\ InitClock
    /\ InitCodec
    /\ InitLoop

Next ==
    \/ \E p \in Payloads : TryWriteLoadWrite(p)
    \/ TryWriteLoadRead
    \/ TryWriteCopy
    \/ TryWriteStore
    \/ TryReadLoadRead
    \/ TryReadLoadWrite
    \/ TryReadCopy
    \/ TryReadStore
    \/ Inspect

Spec == Init /\ [][Next]_vars

(***************************************************************************)
(* Properties of the ring (specification Spec).                            *)
(***************************************************************************)
IsPrefix(s, t) == Len(s) <= Len(t) /\ SubSeq(t, 1, Len(s)) = s

\* The slots holding a record that was published and not yet given back:
\* read_idx, read_idx + 1, ... up to write_idx - 1, modulo the ring size.
Outstanding == Len(accepted) - Len(returned)

Occupied ==
    {BitAnd(SizeT(read_idx + k), RING_BUFFER_SIZE - 1) : k \in 0 .. (Outstanding - 1)}

ProducerInCall == TryWriteLoadRead \/ TryWriteCopy \/ TryWriteStore

ConsumerInCall == TryReadLoadWrite \/ TryReadCopy \/ TryReadStore

\* C1: the records returned by the successful try_read calls are, at every
\* moment, a prefix of the records accepted by the successful try_write
\* calls: the same records in the same order.
C1_ReturnedIsPrefixOfAccepted == IsPrefix(returned, accepted)

\* C1 witness: more records than the ring has slots went through, so the
\* indices have wrapped, and the records were not all alike.
C1_Witness ==
    /\ Len(returned) > RING_BUFFER_SIZE
    /\ returned = accepted
    /\ \E i, j \in 1 .. Len(returned) : returned[i] # returned[j]

\* C2: while the producer is copying into a slot, that slot holds no
\* outstanding record (so it is not the slot a try_read is copying); while
\* the consumer is copying from a slot, that slot is outstanding and holds,
\* complete, the oldest accepted record not yet returned.
C2_NoOverwriteNoEarlyRead ==
    /\ prod.pc \in {"w_copy_lo", "w_copy_hi"} =>
           prod.current_write \notin Occupied
    /\ cons.pc \in {"r_copy_lo", "r_copy_hi"} =>
           /\ cons.current_read \in Occupied
           /\ buffer[cons.current_read] = accepted[Len(returned) + 1]

\* C2 witness: both copies under way at once, on a ring whose slots have
\* been reused.
C2_Witness ==
    /\ prod.pc = "w_copy_hi"
    /\ cons.pc = "r_copy_hi"
    /\ Len(accepted) >= RING_BUFFER_SIZE

\* C4: as long as no try_read has succeeded, a try_write is accepted when
\* fewer than N-1 records were accepted and returns false when N-1 were; no
\* step of the failing call changes write_idx, read_idx or a slot.
C4_FullAfterCapacityWrites ==
    [][(returned = <<>> /\ prod' # prod) =>
          /\ prod.pc = "idle" => UNCHANGED ringVars
          /\ prod.pc = "w_load_read" =>
                /\ (prod'.ret = "false") <=> (Len(accepted) = capacity)
                /\ (prod'.ret # "false") <=> (prod'.pc = "w_copy_lo")
                /\ prod'.ret = "false" => UNCHANGED <<ringVars, accepted>>
          /\ prod.pc = "w_store" => prod'.ret = "true"
      ]_vars

\* C4 witness: the try_write after N-1 accepted ones has returned false, and
\* the ring is full and holds the N-1 records.
C4_Witness ==
    /\ returned = <<>>
    /\ prod.pc = "idle"
    /\ prod.ret = "false"
    /\ Len(accepted) = capacity
    /\ is_full(write_idx, read_idx)
    /\ \A i \in 1 .. capacity : buffer[i - 1] = accepted[i]

\* C5: try_read returns false exactly when read_idx = write_idx as it loads
\* write_idx, that is when every accepted record was already returned; the
\* steps of a failing try_read change neither index, no slot and not the
\* caller's out record.
C5_EmptyReadFailsCleanly ==
    [][(cons' # cons /\ cons.pc \in {"idle", "r_load_write"}) =>
          /\ UNCHANGED ringVars
          /\ cons'.out = cons.out
          /\ cons.pc = "r_load_write" =>
                /\ (cons'.pc = "idle" /\ cons'.ret = "false") <=> (read_idx = write_idx)
                /\ (cons'.ret = "false") <=> (Len(accepted) = Len(returned))
                /\ (cons'.ret # "false") <=> (cons'.pc = "r_copy_lo")
      ]_vars

\* C5 witness: a try_read has failed on a ring emptied by earlier reads, and
\* the out record still holds the last record read.
C5_Witness ==
    /\ cons.pc = "idle"
    /\ cons.ret = "false"
    /\ Len(returned) >= 2
    /\ cons.out = returned[Len(returned)]
    /\ cons.out # ZeroRecord

\* C6: on every pair of index values, available_for_read plus
\* available_for_write is N-1, the capacity; so is the sum of the two values
\* a pair of inspector calls returned.
C6_InspectorSum ==
    /\ available_for_read(write_idx, read_idx)
         + available_for_write(write_idx, read_idx) = capacity
    /\ capacity = RING_BUFFER_SIZE - 1
    /\ insp.called =>
          insp.available_for_read + insp.available_for_write = capacity

\* C6 witness: the inspectors were called with the write index wrapped around
\* behind the read index.
C6_Witness ==
    /\ write_idx < read_idx
    /\ insp.called
    /\ insp.available_for_read = available_for_read(write_idx, read_idx)
    /\ insp.available_for_read > 0
    /\ insp.available_for_write > 0

\* C7: available_for_read is the number of records accepted and not yet
\* returned; is_empty holds exactly when that number is 0, is_full exactly
\* when it is N-1, and never both.
C7_OccupancyMatchesHistory ==
    /\ available_for_read(write_idx, read_idx) = Outstanding
    /\ is_empty(write_idx, read_idx) <=> (Outstanding = 0)
    /\ is_full(write_idx, read_idx) <=> (Outstanding = capacity)
    /\ is_full(write_idx, read_idx) <=>
          (BitAnd(SizeT(write_idx + 1), RING_BUFFER_SIZE - 1) = read_idx)
    /\ ~(is_empty(write_idx, read_idx) /\ is_full(write_idx, read_idx))

\* C7 witness: a full ring whose write index has wrapped to slot 0.
C7_Witness ==
    /\ is_full(write_idx, read_idx)
    /\ write_idx < read_idx
    /\ Outstanding = capacity
    /\ Len(returned) > 0

\* C8: a call never takes more than four steps before its last one, and the
\* next step of a call under way is enabled whatever the other thread is
\* doing; an inspector call is one step, always enabled.
C8_WaitFree ==
    /\ prod.steps <= 4
    /\ cons.steps <= 4
    /\ prod.pc # "idle" => ENABLED ProducerInCall
    /\ cons.pc # "idle" => ENABLED ConsumerInCall
    /\ ENABLED Inspect

\* C8 witness: with the consumer stopped in the middle of a copy and the ring
\* full, a try_write has returned (false).
C8_Witness ==
    /\ cons.pc = "r_copy_hi"
    /\ is_full(write_idx, read_idx)
    /\ prod.pc = "idle"
    /\ prod.ret = "false"

(***************************************************************************)
(* SpecShm: SharedMemoryManager objects constructed, written through and   *)
(* destroyed in any order, every system call succeeding;                   *)
(* SpecShmFaults: the same with system calls that may fail.                *)
(***************************************************************************)
InitSegments ==
    /\ InitRing
    /\ prod = ProdIdle("none", "none")
    /\ cons = ConsIdle("none", ZeroRecord, "none")
    /\ InitShm
    /\ InitServer
    /\ InitClock
    /\ InitCodec
    /\ InitLoop

NextShm ==
    \/ \E h \in Handles, name \in NameArgs, size \in Sizes, create \in BOOLEAN :
          Construct(h, name, size, create, "none")
    \/ \E h \in Handles : Destroy(h)
    \/ \E h \in Handles, v \in Payloads : WriteShm(h, v)

SpecShm == InitSegments /\ [][NextShm]_vars

NextShmFaults ==
    \/ \E h \in Handles, name \in NameArgs, size \in Sizes, create \in BOOLEAN,
          fault \in Faults : Construct(h, name, size, create, fault)
    \/ \E h \in Handles : Destroy(h)
    \/ \E h \in Handles, v \in Payloads : WriteShm(h, v)

SpecShmFaults == InitSegments /\ [][NextShmFaults]_vars

\* Every descriptor and every mapping of an object is held by one handle.
OwnedOnce(hs, objs) ==
    \A o \in Objs :
        /\ objs[o].fds = Cardinality({h \in Handles : hs[h].shm_fd_ = o})
        /\ objs[o].maps = Cardinality({h \in Handles : hs[h].mapped_addr = o})

IsValid(hd) == hd.mapped_addr # MAP_FAILED /\ hd.shm_fd_ # -1

LiveCreator(hs, h, n) ==
    /\ hs[h].state = "live"
    /\ hs[h].is_creator_
    /\ hs[h].name_ = n

\* C9: whenever a creator-mode handle on a name is live, an attach to that
\* name succeeds and the attached handle maps the object the creator maps,
\* so that it reads what the creator wrote.
C9_AttachWhileCreatorLive ==
    \A h \in Handles, n \in Names :
        LiveCreator(handles, h, n) =>
            LET r == Ctor(OsNow, n, handles[h].size_, FALSE, "none")
            IN  /\ r.handle.state = "live"
                /\ r.handle.mapped_addr = handles[h].mapped_addr
                /\ r.os.objs[r.handle.mapped_addr].data = ReadShm(h)

\* C10: a step unbinds a name exactly when it destroys a creator handle of
\* that name (so never when it destroys an attach-only handle), and as long
\* as a creator handle of the name lives the name stays bound.
C10_UnlinkOnlyAtCreatorDestroy ==
    [][\A n \in Names :
          LET destroyed ==
                  \E h \in Handles : /\ LiveCreator(handles, h, n)
                                     /\ handles'[h].state # "live"
              unlinked == shm_names[n] # NoObj /\ shm_names'[n] = NoObj
          IN  /\ unlinked => destroyed
              /\ destroyed => shm_names'[n] = NoObj
              /\ (\E h \in Handles : LiveCreator(handles', h, n)) =>
                     shm_names'[n] # NoObj
      ]_vars

\* C13: a create-mode construction on a name bound to an object of non-zero
\* size leaves that object's size and bytes as they are and maps that very
\* object read/write, whatever size was asked for, so that the new handle
\* reads what the handles already mapping it read; and after a store through
\* a handle every creator-mode handle mapping the same object reads the
\* stored value.
C13_CreateOnExistingShares ==
    [][\A h \in Handles, n \in Names :
          /\ ( /\ handles[h].state # "live"
               /\ LiveCreator(handles', h, n)
               /\ shm_names[n] # NoObj
               /\ shm_objs[shm_names[n]].size # 0 ) =>
                 LET o == shm_names[n]
                 IN  /\ shm_names'[n] = o
                     /\ shm_objs'[o].size = shm_objs[o].size
                     /\ shm_objs'[o].data = shm_objs[o].data
                     /\ handles'[h].mapped_addr = o
                     /\ handles'[h].prot = "rw"
                     /\ \A g \in Handles :
                           (LiveCreator(handles, g, n) /\ handles[g].mapped_addr = o) =>
                               shm_objs'[handles'[h].mapped_addr].data = ReadShm(g)
          /\ ( /\ LiveCreator(handles, h, n)
               /\ handles' = handles
               /\ shm_objs'[handles[h].mapped_addr].data # ReadShm(h) ) =>
                 \A g \in Handles :
                     ( /\ LiveCreator(handles, g, n)
                       /\ shm_names[n] = handles[g].mapped_addr
                       /\ shm_names[n] = handles[h].mapped_addr ) =>
                         shm_objs'[handles[g].mapped_addr].data =
                             shm_objs'[handles[h].mapped_addr].data
      ]_vars

\* C13 witness: two creator-mode handles on one name, the second built with
\* another size than the object has, share the object, which holds a value
\* stored through one of them.
C13_Witness ==
    \E g, h \in Handles, n \in Names :
        /\ g # h
        /\ LiveCreator(handles, g, n)
        /\ LiveCreator(handles, h, n)
        /\ handles[g].mapped_addr = handles[h].mapped_addr
        /\ handles[g].size_ # handles[h].size_
        /\ shm_objs[handles[h].mapped_addr].size = handles[g].size_
        /\ ReadShm(h) # 0

(***************************************************************************)
(* SpecCtor: constructions that may fail at any system call, and           *)
(* destructions, with no stores to the segments.                           *)
(***************************************************************************)
NextCtor ==
    \/ \E h \in Handles, name \in NameArgs, size \in Sizes, create \in BOOLEAN,
          fault \in Faults : Construct(h, name, size, create, fault)
    \/ \E h \in Handles : Destroy(h)

SpecCtor == InitSegments /\ [][NextCtor]_vars

\* The system call named by fault is reached by this construction.
FaultReached(os, name, size, create, fault) ==
    /\ name # "" /\ size # 0
    /\ \/ fault = "shm_open"
       \/ fault = "fstat" /\ create
       \/ fault = "ftruncate" /\ create /\
             (os.names[name] = NoObj \/ os.objs[os.names[name]].size = 0)
       \/ fault = "mmap" /\ (create \/ os.names[name] # NoObj)

\* C12: in every state, a construction that fails (empty name, zero size, or
\* a failing shm_open, fstat, ftruncate or mmap) throws and leaves every
\* object with the descriptors and mappings it had; an empty name or a zero
\* size throws with the OS untouched; so does an attach to an unbound name;
\* and no descriptor or mapping exists that no handle holds.
C12_FailedConstructionReleases ==
    /\ OwnedOnce(handles, shm_objs)
    /\ \A name \in NameArgs, size \in Sizes, create \in BOOLEAN, fault \in Faults :
          \A r \in {Ctor(OsNow, name, size, create, fault)} :
              /\ FaultReached(OsNow, name, size, create, fault) =>
                    r.handle.state = "threw"
              /\ (name = "" \/ size = 0) =>
                    r.handle.state = "threw" /\ r.os = OsNow
              /\ (name # "" /\ ~create /\ shm_names[name] = NoObj) =>
                    r.handle.state = "threw" /\ r.os = OsNow
              /\ r.handle.state = "threw" =>
                    /\ r.handle.shm_fd_ = -1
                    /\ r.handle.mapped_addr = MAP_FAILED
                    /\ \A after \in {Reap(r.os).objs} : \A o \in Objs :
                          /\ after[o].fds = shm_objs[o].fds
                          /\ after[o].maps = shm_objs[o].maps

\* C12 witness: a constructor has thrown, on a name other handles hold a
\* segment of, and its unlink has left one of them with a segment the name
\* is no longer bound to while the name is bound again.
C12_Witness ==
    /\ \E h \in Handles : handles[h].state = "threw"
    /\ \E h \in Handles, n \in Names :
          /\ IsValid(handles[h])
          /\ handles[h].name_ = n
          /\ shm_names[n] # NoObj
          /\ shm_names[n] # handles[h].mapped_addr

(***************************************************************************)
(* SpecMove: SharedMemoryManager objects constructed, move-constructed,     *)
(* move-assigned and destroyed in any order, every system call succeeding. *)
(***************************************************************************)
NextMove ==
    \/ \E h \in Handles, name \in Names, size \in Sizes \ {0}, create \in BOOLEAN :
          Construct(h, name, size, create, "none")
    \/ \E h \in Handles : Destroy(h)
    \/ \E dst, src \in Handles : MoveConstruct(dst, src)
    \/ \E dst, src \in Handles : MoveAssign(dst, src)

SpecMove == InitSegments /\ [][NextMove]_vars

\* The step moves src into dst, by construction or by assignment.
Moves(dst, src) ==
    dst # src /\ (MoveConstruct(dst, src) \/ MoveAssign(dst, src))

\* The destination holds what the source held; the source holds nothing.
MoveTransfers(dst, src) ==
    /\ handles'[dst].shm_fd_ = handles[src].shm_fd_
    /\ handles'[dst].mapped_addr = handles[src].mapped_addr
    /\ handles'[dst].size_ = handles[src].size_
    /\ handles'[dst].name_ = handles[src].name_
    /\ handles'[dst].is_creator_ = handles[src].is_creator_
    /\ ~IsValid(handles'[src])
    /\ handles'[src].shm_fd_ = -1
    /\ handles'[src].mapped_addr = MAP_FAILED
    /\ ~handles'[src].is_creator_

\* Move assignment gives up what dst held: its mapping, its descriptor and,
\* for a creator, the name; move construction touches no OS object.
MoveReleases(dst, src) ==
    /\ MoveConstruct(dst, src) => UNCHANGED <<shm_names, shm_objs>>
    /\ MoveAssign(dst, src) =>
          LET old == handles[dst]
          IN  /\ old.shm_fd_ # -1 =>
                    shm_objs'[old.shm_fd_].fds = shm_objs[old.shm_fd_].fds - 1
              /\ old.mapped_addr # MAP_FAILED =>
                    shm_objs'[old.mapped_addr].maps = shm_objs[old.mapped_addr].maps - 1
              /\ (old.is_creator_ /\ old.name_ # "") => shm_names'[old.name_] = NoObj

\* Destroying a moved-from object does nothing to the OS.
MovedFromDestroyIsNoOp ==
    \A h \in Handles :
        (handles[h].via = "gone" /\ handles'[h].state = "none") =>
            UNCHANGED <<shm_names, shm_objs>>

\* The name of a segment held through a move stays bound to it in every step
\* but the one that destroys its holder (or assigns over it).
MovedUnlinkedOnlyAtDestroy ==
    \A d \in Handles, n \in Names :
        ( /\ handles[d].via = "move"
          /\ IsValid(handles[d])
          /\ handles[d].is_creator_
          /\ handles[d].name_ = n
          /\ shm_names[n] = handles[d].mapped_addr
          /\ shm_names'[n] # shm_names[n] ) =>
            \/ handles'[d].state = "none"
            \/ \E s \in Handles : Moves(d, s)

\* C11: every descriptor and mapping is held by exactly one handle; a move
\* (construction or assignment) leaves in the destination the source's
\* descriptor, address, size, name and creator flag and leaves the source
\* invalid and no creator; destroying the source then does nothing to the OS;
\* move assignment first releases what the destination held; and the name of
\* a moved segment is unlinked only when its destination is destroyed.
C11_MoveOwnership ==
    [][ /\ OwnedOnce(handles', shm_objs')
        /\ \A dst, src \in Handles :
              Moves(dst, src) => MoveTransfers(dst, src) /\ MoveReleases(dst, src)
        /\ MovedFromDestroyIsNoOp
        /\ MovedUnlinkedOnlyAtDestroy
      ]_vars

(***************************************************************************)
(* SpecIpc: the publisher process creates the segment and constructs the   *)
(* ring in it, then calls try_write; the consumer process attaches and     *)
(* calls try_read.                                                         *)
(***************************************************************************)
PubHandle == "h1"
ConHandle == "h2"

\* sizeof(hft::RingBuffer), in cache lines: the two indices and the slots.
ring_buffer_size == 2 + RING_BUFFER_SIZE

\* publisher main.cpp line 249: SharedMemoryManager shm_manager(..., true); an
\* exception ends the run (MainCreateShm follows what main does with it).
PubCreateShm(fault) ==
    /\ prod.pc = "start"
    /\ ConstructEffect(PubHandle, SegName, ring_buffer_size, TRUE, fault)
    /\ prod' = [prod EXCEPT
                  !.pc = IF handles'[PubHandle].state = "live"
                         THEN "init_ring" ELSE "exit"]
    /\ UNCHANGED <<ringVars, cons, histVars, insp,
                 tcpVars, clockVars, codecVars, loopVars>>

\* publisher main.cpp line 259-260: new(shm_addr) hft::RingBuffer().
PubInitRing ==
    /\ prod.pc = "init_ring"
    /\ write_idx' = 0
    /\ read_idx' = 0
    /\ buffer' = [i \in Slots |-> ZeroRecord]
    /\ prod' = ProdIdle(PubHandle, "none")
    /\ UNCHANGED <<cons, histVars, insp, shmVars,
                 tcpVars, clockVars, codecVars, loopVars>>

\* shm_consumer main.cpp line 43-55: SharedMemoryManager shm_manager(..., false)
\* and the cast of its address; an exception leaves main through its handler.
ConAttach(fault) ==
    /\ cons.pc = "start"
    /\ ConstructEffect(ConHandle, SegName, ring_buffer_size, FALSE, fault)
    /\ cons' = IF handles'[ConHandle].state = "live"
               THEN ConsIdle(ConHandle, ZeroRecord, "none")
               ELSE [cons EXCEPT !.pc = "exit"]
    /\ UNCHANGED <<ringVars, prod, histVars, insp,
                 tcpVars, clockVars, codecVars, loopVars>>

InitIpc ==
    /\ InitRing
    /\ prod = [ProdIdle("none", "none") EXCEPT !.pc = "start"]
    /\ cons = [ConsIdle("none", ZeroRecord, "none") EXCEPT !.pc = "start"]
    /\ InitShm
    /\ InitServer
    /\ InitClock
    /\ InitCodec
    /\ InitLoop

NextIpc ==
    \/ \E fault \in Faults : PubCreateShm(fault)
    \/ PubInitRing
    \/ \E fault \in Faults : ConAttach(fault)
    \/ \E p \in Payloads : TryWriteLoadWrite(p)
    \/ TryWriteLoadRead
    \/ TryWriteCopy
    \/ TryWriteStore
    \/ TryReadLoadRead
    \/ TryReadLoadWrite
    \/ TryReadCopy
    \/ TryReadStore
    \/ Inspect

SpecIpc == InitIpc /\ [][NextIpc]_vars

\* C3: every record the publisher published is obtained by the consumer's
\* try_read through its attach-mode handle, equal and in order, and each
\* such try_read runs to its end, the store of the new read index included.
C3_AttachedConsumerReads ==
    /\ IsPrefix(returned, accepted)
    /\ cons.pc # "sigsegv"

(***************************************************************************)
(* SpecServe: the TcpServer with clients that connect, close and reset,    *)
(* the io_context thread running the accept and read handlers and the main *)
(* thread calling broadcast_json; no socket becomes writable again, so a   *)
(* write that was not sent at once stays queued.                           *)
(***************************************************************************)
NextServe ==
    \/ \E c \in Socks : ClientConnect(c)
    \/ \E c \in Socks : ClientClose(c)
    \/ \E c \in Socks : ClientReset(c)
    \/ \E c \in Socks : AcceptComplete(c)
    \/ AcceptInsert
    \/ AcceptError
    \/ StartAccept
    \/ \E c \in Socks : ProbeComplete(c)
    \/ ProbeErase
    \/ BroadcastLock
    \/ \E c \in Socks, n \in SendSizes : BroadcastSend(c, n)
    \/ BroadcastReturn

SpecServe == InitSegments /\ [][NextServe]_vars

(***************************************************************************)
(* SpecStall: SpecServe with clients that never take a byte: every write   *)
(* stays queued.  The accept and read handlers and broadcast_json contend  *)
(* for the mutex.                                                          *)
(***************************************************************************)
NextStall ==
    \/ \E c \in Socks : ClientConnect(c)
    \/ \E c \in Socks : ClientClose(c)
    \/ \E c \in Socks : ClientReset(c)
    \/ \E c \in Socks : AcceptComplete(c)
    \/ AcceptInsert
    \/ AcceptError
    \/ StartAccept
    \/ \E c \in Socks : ProbeComplete(c)
    \/ ProbeErase
    \/ BroadcastLock
    \/ \E c \in Socks : BroadcastSend(c, 0)
    \/ BroadcastReturn

SpecStall == InitSegments /\ [][NextStall]_vars

(***************************************************************************)
(* SpecWrite: the TcpServer with every client connected and accepted, the  *)
(* main thread calling broadcast_json and the io_context thread performing *)
(* and continuing the writes.                                              *)
(***************************************************************************)
\* The server once every client was accepted and no line was broadcast yet.
InitConnected ==
    /\ InitRing
    /\ prod = ProdIdle("none", "none")
    /\ cons = ConsIdle("none", ZeroRecord, "none")
    /\ InitShm
    /\ InitClock
    /\ InitCodec
    /\ InitLoop
    /\ clients_ = Socks
    /\ clients_mutex_ = "free"
    /\ accept_armed = 1
    /\ conn = [c \in Socks |->
                 [st |-> "accepted", peer |-> "open", probe |-> TRUE, is_open |-> TRUE]]
    /\ io = IoIdle
    /\ bc = BcIdle(0)
    /\ wq = [c \in Socks |-> NoWrites]
    /\ rx = [c \in Socks |-> <<>>]
    /\ submitted = [c \in Socks |-> <<>>]

NextWrite ==
    \/ \E c \in Socks : KernelSend(c)
    \/ \E c \in Socks, k \in LineIds : WriteContinue(c, k)
    \/ BroadcastLock
    \/ \E c \in Socks, n \in SendSizes : BroadcastSend(c, n)
    \/ BroadcastReturn

SpecWrite == InitConnected /\ [][NextWrite]_vars

\* The bytes of the messages of lines ls, one after the other, each named
\* by its line and its place in the message.
RECURSIVE InOrder(_)
InOrder(ls) ==
    IF ls = <<>> THEN <<>>
    ELSE [i \in 1 .. Len(Message(Head(ls))) |-> <<Head(ls), i>>] \o InOrder(Tail(ls))

\* Which byte of which message each received byte is.
Places(r) == [i \in 1 .. Len(r) |-> <<r[i][1], r[i][2]>>]

\* The asynchronous write of line k to c has ended without error.
Written(c, k) ==
    /\ \E i \in 1 .. Len(submitted[c]) : submitted[c][i] = k
    /\ k \notin wq[c].posted
    /\ k \notin wq[c].failed
    /\ \A i \in 1 .. Len(wq[c].rq) : wq[c].rq[i] # k

\* C14: every byte a client receives for a broadcast_json call is the byte of
\* the submitted line (or its newline) at that place, no place is received
\* twice, and a write that has ended has delivered the whole message, also
\* when it is performed after broadcast_json has returned.
C14_DeliversSubmittedBytes ==
    \A c \in Socks :
        /\ \A i \in 1 .. Len(rx[c]) : rx[c][i][3] = Message(rx[c][i][1])[rx[c][i][2]]
        /\ \A i, j \in 1 .. Len(rx[c]) :
              i # j => <<rx[c][i][1], rx[c][i][2]>> # <<rx[c][j][1], rx[c][j][2]>>
        /\ \A k \in LineIds :
              Written(c, k) =>
                  \A p \in 1 .. Len(Message(k)) :
                      \E i \in 1 .. Len(rx[c]) : rx[c][i] = <<k, p, Message(k)[p]>>

\* C15: what a client has received is, place by place, a beginning of the
\* messages of the lines submitted to it, in the order of the broadcast_json
\* calls: the lines arrive in order, whole, none inside another.
C15_LinesInOrderNotInterleaved ==
    \A c \in Socks : IsPrefix(Places(rx[c]), InOrder(submitted[c]))

\* The connection of c has failed: its peer closed or reset it.
Failed(c) == conn[c].st # "unused" /\ conn[c].peer \in {"eof", "reset"}

\* C16: whatever clients close or reset, and whenever, the event loop does
\* not end and an accept stays outstanding between handlers; only a client
\* whose connection failed leaves the clients set; and a broadcast_json call
\* submits its line to every client in the set.
C16_SurvivesClientFailure ==
    [][ /\ io'.pc # "terminated"
        /\ io'.pc = "run" => accept_armed' = 1
        /\ \A c \in Socks : (c \in clients_ /\ c \notin clients_') => Failed(c)
        /\ (bc.pc = "loop" /\ bc'.pc = "idle") =>
              \A c \in clients_ :
                  \E i \in 1 .. Len(submitted[c]) : submitted[c][i] = bc.line
      ]_vars

\* C17: a client of the set whose connection has failed has its removal
\* ahead of it: its read is outstanding with the event loop alive to call
\* the handler, or the handler is about to erase it.
C17_FailedClientGetsRemoved ==
    \A c \in Socks :
        (c \in clients_ /\ Failed(c)) =>
            \/ conn[c].probe /\ io.pc # "terminated"
            \/ io.pc = "probe_erase" /\ io.sock = c

\* C18: between handlers exactly one accept is outstanding; an accept that
\* has completed, with or without error, has its handler on the way to
\* start_accept; the handler of a failed accept changes no client set and
\* ends with the new accept started.
C18_AcceptAlwaysRearmed ==
    [][ /\ accept_armed' \in {0, 1}
        /\ io'.pc = "run" => accept_armed' = 1
        /\ accept_armed' = 0 => io'.pc \in {"acc_insert", "acc_rearm"}
        /\ (io.pc = "run" /\ io'.pc = "acc_rearm") => clients_' = clients_
        /\ (io.pc = "acc_rearm" /\ io'.pc # io.pc) =>
              (io'.pc = "run" /\ accept_armed' = 1)
      ]_vars

\* C19: a broadcast_json call is never kept waiting: the mutex is free
\* whenever the call starts, every turn of its loop and its return are
\* enabled whatever the event-loop thread and the clients are doing and
\* whatever writes are still queued, and the call ends after at most one
\* turn for each client.
C19_BroadcastNeverWaits ==
    /\ (clients_mutex_ = "main") <=> (bc.pc = "loop")
    /\ (bc.pc = "idle" /\ bc.calls < MaxLines) => ENABLED BroadcastLock
    /\ (bc.pc = "loop" /\ bc.todo # {}) => ENABLED (\E c \in Socks : BroadcastSend(c, 0))
    /\ (bc.pc = "loop" /\ bc.todo = {}) => ENABLED BroadcastReturn
    /\ bc.steps <= 1 + MaxSocks

\* C19 witness: broadcast_json has returned while a write of it is still
\* queued on a client that takes no bytes, and a handler of the event-loop
\* thread had to wait for the mutex during the call.
C19_Witness ==
    /\ bc.pc = "idle"
    /\ bc.calls = MaxLines
    /\ \E c \in Socks : Len(wq[c].rq) = MaxLines /\ conn[c].peer = "open"
    /\ io.pc \in {"acc_insert", "probe_erase"}
    /\ io.sock \notin clients_ \/ io.pc = "probe_erase"

(***************************************************************************)
(* SpecClock: one FastClock object, from its construction to its           *)
(* destruction.                                                            *)
(***************************************************************************)
NextClock ==
    \/ Tick
    \/ ClockCtorRead
    \/ ClockCtorStore
    \/ ClockCtorStart
    \/ UpdateRead
    \/ UpdateStore
    \/ ClockStop
    \/ ClockJoin
    \/ Now

SpecClock == InitSegments /\ [][NextClock]_vars

\* The scheduler runs the update thread and the destroying thread again and
\* again, and sleep_for returns.
SpecClockLive ==
    /\ SpecClock
    /\ WF_vars(UpdateRead)
    /\ WF_vars(UpdateStore)
    /\ WF_vars(ClockJoin)

\* C20: the values returned by the successive now() calls never decrease,
\* wherever the calls fall among the constructor's store and the stores of
\* update_loop.
C20_NowNeverDecreases ==
    \A i, j \in 1 .. Len(nows) : i <= j => nows[i] <= nows[j]

\* C20 witness: three now() calls, one before the constructor's store, one
\* after it and one after a later store of update_loop, returned three
\* different values.
C20_Witness ==
    /\ Len(nows) = 3
    /\ nows[1] = 0
    /\ nows[1] < nows[2]
    /\ nows[2] < nows[3]
    /\ fclock.stores >= 1

\* C21: from the end of the constructor to the start of the destructor
\* running is true and update_loop is in its loop; once the destructor has
\* cleared running update_loop makes at most one more store and then
\* leaves, so that the join returns; and after the destructor has returned
\* nothing stores to cached_time_ns.
C21_RefresherLifetime ==
    /\ [](fclock.ctor = "done" => (running /\ fclock.upd \in {"check", "store"}))
    /\ [](fclock.ctor \in {"joining", "destroyed"} => ~running)
    /\ [](fclock.late <= 1)
    /\ [](fclock.ctor = "destroyed" => fclock.upd = "exited")
    /\ [][fclock.ctor = "destroyed" => cached_time_ns' = cached_time_ns]_vars
    /\ (fclock.ctor = "joining") ~> (fclock.ctor = "destroyed")

\* C21 witness: the destructor began while update_loop was between its clock
\* reading and its store; that store was made, the loop left and the
\* destructor returned.
C21_Witness ==
    /\ fclock.ctor = "destroyed"
    /\ fclock.late = 1
    /\ fclock.stores >= 2

(***************************************************************************)
(* SpecCodec: one MarketData built from any symbol, encoded and decoded,   *)
(* or one JSON text of any shape decoded.                                  *)
(***************************************************************************)
\* What a member of a text may be: missing, or a value of each JSON type.
Absent == <<"absent", 0>>
MemberChoices ==
    {Absent, JNull, <<"boolean", TRUE>>, <<"string", <<65>>>>,
     <<"number_integer", -1>>, <<"number_unsigned", 5>>,
     <<"number_float", <<"finite", 3>>>>, <<"array", <<>>>>, <<"object", <<>>>>}

\* The object whose members are the choices that are not Absent.
ObjectOf(c) == [n \in {x \in DOMAIN c : c[x] # Absent} |-> c[n]]

\* The texts of the objects that have any of the four members, each of any
\* type, with or without a fifth member.
ShapedTexts ==
    {DumpObject(ObjectOf(c)).toks : c \in [FieldNames -> MemberChoices]}
    \cup {DumpObject(ObjectOf(c)).toks :
             c \in [FieldNames \cup {"invalid"} -> {<<"number_unsigned", 5>>}]}

\* The texts of the objects with four members of the right types and any
\* string, written with the escapes of dump() or as it is, as instrument.
SymbolTexts ==
    {<<<<"{", 0>>, <<"name", "ask">>, <<":", 0>>, <<"float", 3>>, <<",", 0>>,
       <<"name", "bid">>, <<":", 0>>, <<"int", 5>>, <<",", 0>>,
       <<"name", "instrument">>, <<":", 0>>, <<"str", e>>, <<",", 0>>,
       <<"name", "timestamp_ns">>, <<":", 0>>, <<"int", -1>>, <<"}", 0>>>> :
         e \in {EscapeString(s) : s \in Strings} \cup Strings}

\* Texts that are no JSON, and values that are no object.
OtherTexts ==
    {<<>>,
     <<<<"{", 0>>>>,
     <<<<"{", 0>>, <<"}", 0>>>>,
     <<<<"word", 0>>>>,
     <<<<"{", 0>>, <<"name", "invalid">>, <<":", 0>>, <<"str", <<65>>>>, <<",", 0>>,
       <<"}", 0>>>>,
     <<<<"{", 0>>, <<"name", "instrument">>, <<":", 0>>, <<"str", <<65>>>>, <<"}", 0>>>>,
     <<<<"{", 0>>, <<"name", "instrument">>, <<":", 0>>, <<"str", <<65>>>>>>,
     <<<<"{", 0>>, <<"name", "instrument">>, <<"str", <<65>>>>, <<"}", 0>>>>,
     <<<<"{", 0>>, <<"str", <<65>>>>, <<":", 0>>, <<"int", 5>>, <<"}", 0>>>>,
     <<<<"{", 0>>, <<"}", 0>>, <<"{", 0>>, <<"}", 0>>>>,
     <<<<"[", 0>>, <<"]", 0>>>>,
     <<<<"[", 0>>>>,
     <<<<"null", 0>>>>,
     <<<<"int", 5>>>>,
     <<<<"str", <<65>>>>>>}

Texts == ShapedTexts \cup SymbolTexts \cup OtherTexts

NextCodec ==
    \/ \E inst \in CStrings, b \in Doubles, a \in {<<"finite", -4>>, <<"nan", 0>>},
          ts \in Timestamps : Build(inst, b, a, ts, GARBAGE)
    \/ Encode
    \/ \E text \in Texts : Receive(text)
    \/ Decode

SpecCodec == InitSegments /\ [][NextCodec]_vars

\* The symbol of a record, and whether a string is printable ASCII.
Symbol(md) == CStr(md.instrument)
Printable(str) == \A i \in 1 .. Len(str) : str[i] >= 32 /\ str[i] <= 126

\* The two records are equal on instrument, bid, ask and timestamp_ns.
SameQuote(md, out) ==
    /\ out.instrument = md.instrument
    /\ DoubleEq(out.bid, md.bid)
    /\ DoubleEq(out.ask, md.ask)
    /\ out.timestamp_ns = md.timestamp_ns

\* The member names of a text.
NamesIn(toks) == {toks[i][2] : i \in {x \in 1 .. Len(toks) : toks[x][1] = "name"}}
NameCount(toks) == Cardinality({x \in 1 .. Len(toks) : toks[x][1] = "name"})

\* to_json of a record with a printable symbol returns, and its text has
\* the four member names and no other.
EncodesFourFields ==
    /\ (codec.pc = "threw") => ~Printable(Symbol(codec.md))
    /\ (codec.pc \in {"encoded", "round_trip"}) =>
          (NamesIn(codec.json_str) = FieldNames /\ NameCount(codec.json_str) = 4)

\* C22 as stated: from_json(to_json(R)) returns true and gives back R for
\* every record R with a printable symbol of at most 15 bytes, whatever its
\* bid and ask.
C22_RoundTripEveryRecord ==
    /\ EncodesFourFields
    /\ (codec.pc = "round_trip" /\ Printable(Symbol(codec.md))
          /\ Len(Symbol(codec.md)) <= INSTRUMENT_MAX_LEN - 1) =>
              (codec.ret = "true" /\ SameQuote(codec.md, codec.out))

\* C22, amended: the same for the records whose bid and ask are finite; when
\* bid or ask is a NaN or an infinity, from_json(to_json(R)) returns false.
C22_RoundTripFinitePrices ==
    /\ EncodesFourFields
    /\ (codec.pc = "round_trip" /\ Printable(Symbol(codec.md))
          /\ Len(Symbol(codec.md)) <= INSTRUMENT_MAX_LEN - 1) =>
              IF IsFinite(codec.md.bid) /\ IsFinite(codec.md.ask)
              THEN codec.ret = "true" /\ SameQuote(codec.md, codec.out)
              ELSE codec.ret = "false"

\* C22 witness: a record whose symbol fills the field and holds a quote
\* character, with finite prices and a negative timestamp, has come back.
C22_Witness ==
    /\ codec.pc = "round_trip"
    /\ Len(Symbol(codec.md)) = INSTRUMENT_MAX_LEN - 1
    /\ \E i \in 1 .. Len(Symbol(codec.md)) : Symbol(codec.md)[i] = QUOTE
    /\ Len(codec.inst) > INSTRUMENT_MAX_LEN
    /\ IsFinite(codec.md.bid) /\ IsFinite(codec.md.ask)
    /\ codec.md.timestamp_ns < 0
    /\ codec.ret = "true"

\* The text is a JSON object holding the four members with the types of the
\* wire format: a string, two numbers and an integer.
WellTyped(toks) ==
    \E p \in {Parse(toks)} :
        /\ p.ok
        /\ p.j[1] = "object"
        /\ FieldNames \subseteq DOMAIN p.j[2]
        /\ p.j[2]["instrument"][1] = "string"
        /\ IsNumber(p.j[2]["bid"])
        /\ IsNumber(p.j[2]["ask"])
        /\ p.j[2]["timestamp_ns"][1] \in {"number_integer", "number_unsigned"}

\* C23: from_json returns true for the well-typed texts and false for every
\* other text.
C23_RejectsIllTyped ==
    (codec.pc \in {"decoded", "round_trip"}) =>
        (codec.ret = "true" <=> WellTyped(codec.json_str))

\* The instrument string of a text that from_json accepted.
InstrumentIn(toks) == Parse(toks).j[2]["instrument"][2]

\* The first bytes of str, at most INSTRUMENT_MAX_LEN - 1, and zero bytes
\* up to the end of the field.
Truncated(str) ==
    [i \in 1 .. INSTRUMENT_MAX_LEN |->
        IF i <= Len(str) /\ i <= INSTRUMENT_MAX_LEN - 1 THEN str[i] ELSE NUL]

\* C24 as stated: the field holds the first min(length, 15) bytes of the
\* symbol given to the constructor or found in the text, then zero bytes.
C24_FieldHoldsFirstBytes ==
    /\ (codec.pc # "new" /\ codec.pc # "received" /\ codec.pc # "decoded") =>
          codec.md.instrument = Truncated(codec.inst)
    /\ (codec.pc \in {"decoded", "round_trip"} /\ codec.ret = "true") =>
          codec.out.instrument = Truncated(InstrumentIn(codec.json_str))

\* C24, amended: the field holds the bytes of the symbol that precede its
\* first zero byte, at most 15 of them, then zero bytes; the last byte is
\* zero.
C24_FieldHoldsCString ==
    /\ (codec.pc # "new" /\ codec.pc # "received" /\ codec.pc # "decoded") =>
          codec.md.instrument = Truncated(CStr(codec.inst))
    /\ (codec.pc \in {"decoded", "round_trip"} /\ codec.ret = "true") =>
          codec.out.instrument = Truncated(CStr(InstrumentIn(codec.json_str)))
    /\ codec.md.instrument[INSTRUMENT_MAX_LEN] = NUL
    /\ codec.out.instrument[INSTRUMENT_MAX_LEN] = NUL

\* C24 witness: from_json accepted a text whose instrument has a zero byte
\* between other bytes.
C24_Witness ==
    /\ codec.pc = "decoded"
    /\ codec.ret = "true"
    /\ \E i \in 2 .. (Len(InstrumentIn(codec.json_str)) - 1) :
          /\ InstrumentIn(codec.json_str)[i] = NUL
          /\ InstrumentIn(codec.json_str)[1] # NUL
          /\ InstrumentIn(codec.json_str)[i + 1] # NUL

\* C25: the turn of a broadcast_json loop for a client whose connection has
\* failed removes the client from the set, whether or not its read handler
\* has run; and the read handler called with the error removes the client,
\* whether or not broadcast_json is called again.
C25_EitherPathRemoves ==
    [][ /\ \A c \in Socks :
              (bc.pc = "loop" /\ c \in bc.todo /\ c \notin bc'.todo /\ Failed(c)) =>
                  c \notin clients_'
        /\ (io.pc = "probe_erase" /\ io'.pc = "run") => io.sock \notin clients_'
      ]_vars

\* The publisher has constructed the ring in the segment (main.cpp line 260).
RingConstructed == prod.view = PubHandle

\* C26: every step of a try_read of the attached consumer, and every call of
\* an inspector, is taken after the publisher has constructed the ring in
\* the segment.
C26_ConstructedBeforeUse ==
    [][ ((cons.pc # "start" /\ cons' # cons) \/ insp' # insp) => RingConstructed ]_vars

\* C28: broadcast_json starts the write of a message to a client only after
\* it has released clients_mutex_: no step that submits a write is taken
\* with the mutex held.
C28_WritesSubmittedUnlocked ==
    [][ (\E c \in Socks : submitted'[c] # submitted[c]) => clients_mutex_ = "free" ]_vars

\* A step of the producer's try_write, of the consumer's try_read, of an
\* inspector.
ProducerStep == prod' # prod
ConsumerStep == cons' # cons
InspectorStep == insp' # insp

\* C29: write_idx changes only in the last step of a try_write, read_idx only
\* in the last step of a try_read, a slot only in the copying steps of a
\* try_write; a try_write that returns false, a try_read that returns false
\* and an inspector change neither index and no slot, and no step of a
\* try_read changes a slot.
C29_OwnIndexOnly ==
    [][ /\ write_idx' # write_idx =>
              ProducerStep /\ prod.pc = "w_store" /\ prod'.ret = "true"
        /\ read_idx' # read_idx =>
              ConsumerStep /\ cons.pc = "r_store" /\ cons'.ret = "true"
        /\ buffer' # buffer =>
              ProducerStep /\ prod.pc \in {"w_copy_lo", "w_copy_hi"}
        /\ (ProducerStep /\ prod'.ret = "false") => UNCHANGED ringVars
        /\ (ConsumerStep /\ cons'.ret = "false") => UNCHANGED ringVars
        /\ InspectorStep => UNCHANGED ringVars
        /\ ConsumerStep => UNCHANGED <<write_idx, buffer>>
        /\ ProducerStep => UNCHANGED read_idx
      ]_vars

\* A try_read has returned a record, a later one has returned false, a
\* try_write has found the ring full and an inspector has been called, with
\* the slots holding records.
C29_Witness ==
    /\ returned # <<>>
    /\ cons.ret = "false"
    /\ prod.ret = "false"
    /\ insp.called
    /\ \E i \in Slots : buffer[i] # ZeroRecord

(***************************************************************************)
(* SpecLoop: the publisher's main thread runs its loop while clients        *)
(* connect to the server.  No consumer drains the ring, and the loop would *)
(* end at MessageLimit, above the capacity of the ring: once the ring is   *)
(* full every further record is rejected.                                  *)
(***************************************************************************)
InitPublisher ==
    /\ InitRing
    /\ prod = ProdIdle("direct", "none")
    /\ cons = ConsIdle("direct", ZeroRecord, "none")
    /\ InitShm
    /\ InitServer
    /\ InitClock
    /\ InitCodec
    /\ pub = [LoopIdle EXCEPT !.pc = "top", !.limit = MessageLimit]
    /\ handed = <<>>
    /\ meas = NoMeas

NextLoop ==
    \/ \E p \in Payloads : LoopOffer(p)
    \/ TryWriteLoadRead
    \/ TryWriteCopy
    \/ TryWriteStore
    \/ LoopGetCount
    \/ LoopOverflow
    \/ LoopBroadcast
    \/ \E c \in Socks : BroadcastSend(c, 0)
    \/ BroadcastReturn
    \/ LoopStatus
    \/ LoopSleep
    \/ \E c \in Socks : ClientConnect(c)
    \/ \E c \in Socks : AcceptComplete(c)
    \/ AcceptInsert
    \/ StartAccept

SpecLoop == InitPublisher /\ [][NextLoop]_vars

(***************************************************************************)
(* SpecCount: the main thread calls get_client_count() and broadcast_json  *)
(* while clients connect and leave.                                        *)
(***************************************************************************)
NextCount ==
    \/ \E c \in Socks : ClientConnect(c)
    \/ \E c \in Socks : ClientClose(c)
    \/ \E c \in Socks : AcceptComplete(c)
    \/ AcceptInsert
    \/ StartAccept
    \/ \E c \in Socks : ProbeComplete(c)
    \/ ProbeErase
    \/ GetClientCount
    \/ BroadcastLock
    \/ \E c \in Socks : BroadcastSend(c, 0)
    \/ BroadcastReturn

SpecCount == InitSegments /\ [][NextCount]_vars

\* The event-loop thread runs the insert of the accept handler or the erase
\* of the read handler: a block that takes clients_mutex_, accesses clients_
\* and releases the mutex.
IoAccess == io.pc \in {"acc_insert", "probe_erase"} /\ io' # io

\* The main thread runs get_client_count(): the same kind of block.
CountAccess == pub.pc = "none" /\ pub' # pub

\* The main thread is in the loop of broadcast_json over clients_.
IterAccess == bc.pc = "loop" /\ bc' # bc

\* C27: every access to clients_ (the insert of the accept handler, the
\* erase of the read handler, the iteration and the erase of broadcast_json,
\* the size() of get_client_count) is made by the thread holding
\* clients_mutex_: a block that locks for one access runs only when no other
\* thread holds the mutex, the iteration runs with the mutex held by the
\* main thread, and clients_ changes in no other step.
C27_ClientsUnderMutex ==
    [][ /\ IoAccess => clients_mutex_ = "free"
        /\ CountAccess => clients_mutex_ = "free"
        /\ IterAccess => clients_mutex_ = "main"
        /\ clients_' # clients_ => IoAccess \/ IterAccess
        /\ (bc.pc = "idle" /\ bc'.pc = "loop") =>
              clients_mutex_ = "free" /\ clients_mutex_' = "main"
      ]_vars

\* The event-loop thread is about to insert a client while the main thread
\* iterates over the set under the mutex, after a get_client_count() that
\* found a client and the erase of a client that left.
C27_Witness ==
    /\ io.pc = "acc_insert"
    /\ bc.pc = "loop"
    /\ clients_mutex_ = "main"
    /\ bc.todo = {}
    /\ pub.n > 0
    /\ \E c \in Socks : Failed(c) /\ ~conn[c].probe /\ c \notin clients_

\* s is t with some of its elements left out.
IsSubsequence(s, t) ==
    \E f \in [1 .. Len(s) -> 1 .. Len(t)] :
        /\ \A i \in 1 .. Len(s) : s[i] = t[f[i]]
        /\ \A i, j \in 1 .. Len(s) : i < j => f[i] < f[j]

\* try_write has returned to the loop, with true or with false.
WriteReturned(ret) == pub.pc = "try_write" /\ prod.pc = "idle" /\ prod.ret = ret

\* C30: the records handed to broadcast_json are, in order, a subsequence of
\* the records the ring accepted; the record handed is the one try_write has
\* just accepted; after a try_write that returned false the loop goes to its
\* sleep and hands nothing; after one that returned true the loop goes on to
\* broadcast_json exactly when clients_ is not empty at the call of
\* get_client_count, and then hands the record.
C30_BroadcastFollowsRing ==
    /\ [](IsSubsequence(handed, accepted))
    /\ [][ /\ handed' # handed =>
                 /\ pub.pc = "broadcast"
                 /\ accepted # <<>>
                 /\ pub.md = accepted[Len(accepted)]
                 /\ handed' = Append(handed, pub.md)
           /\ (WriteReturned("false") /\ pub' # pub) =>
                 (pub'.pc = "sleep" /\ handed' = handed)
           /\ (WriteReturned("true") /\ pub' # pub) =>
                 /\ (pub'.pc = "broadcast") <=> (clients_ # {})
                 /\ (pub'.pc = "status") <=> (clients_ = {})
           /\ (pub.pc = "broadcast" /\ pub' # pub) =>
                 (handed' = Append(handed, pub.md))
           /\ (pub.pc = "status" /\ pub' # pub) =>
                 (pub'.pc = "sleep" /\ handed' = handed)
         ]_vars

\* A record was accepted with no client and not handed, a later one was
\* handed, and the last one offered was rejected by the full ring.
C30_Witness ==
    /\ pub.pc = "sleep"
    /\ prod.ret = "false"
    /\ handed # <<>>
    /\ Len(handed) < Len(accepted)
    /\ handed[1] # accepted[1]

\* The main thread is inside try_write.
InTryWrite == prod.pc # "idle"

\* C31: a try_write that returned false leads the loop to its sleep with
\* overflow_count one higher and message_count, the accepted records and the
\* handed records as they were; try_write is entered only from the top of
\* the loop, with a record built in that turn; inside try_write the thread
\* always has a step to take; and at the top of the loop, and at its end,
\* message_count + overflow_count is the number of turns completed.
C31_RejectedRecordDropped ==
    /\ [][ /\ (WriteReturned("false") /\ pub' # pub) =>
                /\ pub'.pc = "sleep"
                /\ pub'.overflow_count = pub.overflow_count + 1
                /\ pub'.message_count = pub.message_count
                /\ UNCHANGED <<accepted, handed, ringVars>>
           /\ (WriteReturned("true") /\ pub' # pub) =>
                /\ pub'.overflow_count = pub.overflow_count
                /\ pub'.message_count = pub.message_count + 1
           /\ (~InTryWrite /\ InTryWrite') =>
                /\ pub.pc = "top"
                /\ pub'.md = prod'.data
           /\ (pub.pc # "try_write" /\ pub'.pc # "try_write") =>
                /\ pub'.overflow_count = pub.overflow_count
                /\ pub'.message_count = pub.message_count
         ]_vars
    /\ [](InTryWrite => ENABLED (TryWriteLoadRead \/ TryWriteCopy \/ TryWriteStore))
    /\ [](pub.pc \in {"top", "done"} =>
              pub.message_count + pub.overflow_count = pub.iterations)

\* Two records were rejected in turn, and the loop is back at its top.
C31_Witness ==
    /\ pub.pc = "top"
    /\ pub.overflow_count = 2
    /\ pub.message_count = 3
    /\ pub.iterations = 5
    /\ handed # <<>>

(***************************************************************************)
(* SpecLatency: the publisher stamps records from its FastClock while the  *)
(* shared-memory consumer constructs and reads its own FastClock and the   *)
(* TCP consumer reads the clock.                                           *)
(***************************************************************************)
NextLatency ==
    \/ Tick
    \/ PubUpdateRead
    \/ PubUpdateStore
    \/ PubStamp
    \/ ClockCtorRead
    \/ ClockCtorStore
    \/ ClockCtorStart
    \/ UpdateRead
    \/ UpdateStore
    \/ ShmLatency
    \/ TcpLatency

SpecLatency == InitSegments /\ [][NextLatency]_vars

\* C32: every latency computed by the shared-memory consumer and by a TCP
\* consumer is at least 0.
C32_LatencyNonNegative ==
    /\ \A i \in 1 .. Len(meas.shm_latency) : meas.shm_latency[i] >= 0
    /\ \A i \in 1 .. Len(meas.tcp_latency) : meas.tcp_latency[i] >= 0

(***************************************************************************)
(* SpecConsume: the TCP consumer reads the lines the publisher's end       *)
(* sends; SpecConsumeLive: the consumer's thread is scheduled again and    *)
(* again.                                                                  *)
(***************************************************************************)
NextConsume ==
    \/ \E text \in LineTexts : PeerSend(text)
    \/ \E e \in TransportErrors : PeerEnd(e)
    \/ TcLine
    \/ TcError

SpecConsume == InitSegments /\ [][NextConsume]_vars

SpecConsumeLive == SpecConsume /\ WF_vars(TcLine) /\ WF_vars(TcError)

\* read_until returns and the consumer takes the next line.
TakesLine ==
    /\ tc.pc = "read"
    /\ tc.inbox # <<>>
    /\ tc'.inbox = Tail(tc.inbox)
    /\ tc'.ended \notin TransportErrors

\* The consumer takes a non-empty line that from_json rejects.
TakesFailingLine ==
    /\ TakesLine
    /\ Head(tc.inbox) # EmptyLine
    /\ ~from_json(Head(tc.inbox), DefaultMarketData).ret

\* Every line read was decoded by itself: its verdict is that of from_json
\* on the line and a new MarketData.
DecodedAlone ==
    \A i \in 1 .. Len(tc.verdicts) :
        tc.verdicts[i][2] = from_json(tc.verdicts[i][1], DefaultMarketData).ret

\* An empty line is taken without being counted.
EmptySkipped ==
    (TakesLine /\ Head(tc.inbox) = EmptyLine) =>
        /\ tc'.message_count = tc.message_count
        /\ tc'.parse_errors = tc.parse_errors
        /\ tc'.verdicts = tc.verdicts
        /\ tc'.pc = "read"

\* C33 as stated: a non-empty line that fails to decode increments
\* parse_errors and the loop goes on to read the next line.
C33_FailureNeverEndsLoop ==
    [][ /\ TakesFailingLine =>
              (tc'.parse_errors = tc.parse_errors + 1 /\ tc'.pc = "read")
        /\ EmptySkipped
      ]_vars

\* C33 amended: a non-empty line that fails to decode increments
\* parse_errors and is counted in message_count; the loop goes on to read
\* the next line unless the line was the LineLimit-th non-empty one, and
\* then it ends as it does after a line that decodes; every line is decoded
\* by itself; an empty line is skipped and counted nowhere.
C33_FailureCountedLoopGoesOn ==
    /\ [][ /\ TakesFailingLine =>
                /\ tc'.parse_errors = tc.parse_errors + 1
                /\ tc'.message_count = tc.message_count + 1
                /\ (tc'.pc = "read") <=> (tc'.message_count < LineLimit)
                /\ (tc'.pc = "done") <=> (tc'.message_count >= LineLimit)
           /\ EmptySkipped
         ]_vars
    /\ [](DecodedAlone)

\* A line was decoded after a line that failed to decode and an empty line.
C33_Witness ==
    /\ tc.parse_errors = 1
    /\ tc.message_count = 2
    /\ tc.sent = 3
    /\ tc.inbox = <<>>
    /\ tc.pc = "read"
    /\ Len(tc.verdicts) = 2
    /\ ~tc.verdicts[1][2]
    /\ tc.verdicts[2][2]

\* A read of the consumer ends with a transport error.
ReadFails == tc.pc = "read" /\ tc'.ended \in TransportErrors

\* C34: a read that ends with a transport error ends the loop at once; a
\* loop that has ended reads no more; the loop has ended either by a
\* transport error or with message_count at LineLimit, and is running only
\* with message_count below LineLimit; and once the publisher's end has
\* ended the connection or has sent LineLimit non-empty lines, the loop
\* ends.
C34_ReceiveLoopEnds ==
    /\ [][ /\ ReadFails => tc'.pc = "done"
           /\ tc.pc = "done" =>
                /\ tc'.pc = "done"
                /\ tc'.message_count = tc.message_count
                /\ tc'.ended = tc.ended
         ]_vars
    /\ [](tc.pc = "done" =>
              \/ tc.ended \in TransportErrors /\ tc.message_count < LineLimit
              \/ tc.ended = "count" /\ tc.message_count = LineLimit)
    /\ [](tc.pc = "read" => tc.message_count < LineLimit /\ tc.ended = "none")
    /\ (tc.peer # "open" \/ tc.nonempty >= LineLimit) ~> (tc.pc = "done")

\* The loop has ended on the end of the stream after it had read lines.
C34_Witness ==
    /\ tc.pc = "done"
    /\ tc.ended = "eof"
    /\ tc.message_count = 2
    /\ tc.sent = 3

(***************************************************************************)
(* SpecRun: the publisher's loop as the program runs it, on the ring it    *)
(* has just constructed, ending at a message_count within the capacity of  *)
(* the ring, while clients connect to the server; no consumer reads.  The  *)
(* else branch of the loop (LoopOverflow) is followed in SpecLoop.         *)
(***************************************************************************)
InitRun ==
    /\ InitRing
    /\ prod = ProdIdle("direct", "none")
    /\ cons = ConsIdle("direct", ZeroRecord, "none")
    /\ InitShm
    /\ InitServer
    /\ InitClock
    /\ InitCodec
    /\ pub = [LoopIdle EXCEPT !.pc = "top"]
    /\ handed = <<>>
    /\ meas = NoMeas

NextRun ==
    \/ \E p \in Payloads : LoopOffer(p)
    \/ TryWriteLoadRead
    \/ TryWriteCopy
    \/ TryWriteStore
    \/ LoopGetCount
    \/ LoopBroadcast
    \/ \E c \in Socks : BroadcastSend(c, 0)
    \/ BroadcastReturn
    \/ LoopStatus
    \/ LoopSleep
    \/ \E c \in Socks : ClientConnect(c)
    \/ \E c \in Socks : AcceptComplete(c)
    \/ AcceptInsert
    \/ StartAccept

SpecRun == InitRun /\ [][NextRun]_vars

\* A step of the main thread in its loop.
MainStep ==
    \/ \E p \in Payloads : LoopOffer(p)
    \/ TryWriteLoadRead \/ TryWriteCopy \/ TryWriteStore
    \/ LoopGetCount \/ LoopBroadcast \/ BroadcastReturn
    \/ (\E c \in Socks : BroadcastSend(c, 0))
    \/ LoopStatus \/ LoopSleep

Stopped == pub.pc \in {"join", "joined"}

\* The thread in run() takes the next completion handler.
Dispatch(handler) == ~Stopped /\ handler

\* Line 249, in the try block of main and after line 230: an exception of the
\* constructor unwinds the block.
MainCreateShm(fault) ==
    /\ pub.pc = "shm"
    /\ ConstructEffect(PubHandle, SegName, ring_buffer_size, TRUE, fault)
    /\ pub' = [pub EXCEPT !.pc = IF handles'[PubHandle].state = "live"
                                 THEN "init_ring" ELSE "unwind"]
    /\ UNCHANGED <<ringVars, prod, cons, histVars, insp,
                 tcpVars, clockVars, codecVars, handed, meas>>

\* Line 259-260, 296-299: new(shm_addr) hft::RingBuffer(), then the loop.
MainInitRing ==
    /\ pub.pc = "init_ring"
    /\ write_idx' = 0
    /\ read_idx' = 0
    /\ buffer' = [i \in Slots |-> ZeroRecord]
    /\ pub' = [pub EXCEPT !.pc = "top"]
    /\ UNCHANGED <<prod, cons, histVars, insp, shmVars,
                 tcpVars, clockVars, codecVars, handed, meas>>

\* The exception leaves the try block (line 368): the objects of the block
\* are destroyed in reverse order, fast_clock (238), then io_thread (230).
\* Nothing has joined or detached io_thread, and the destructor of a joinable
\* std::thread calls std::terminate: the handler of line 368-371 is not
\* reached.
MainUnwind ==
    /\ pub.pc = "unwind"
    /\ pub' = [pub EXCEPT !.pc = "aborted"]
    /\ UNCHANGED <<coreVars, tcpVars, clockVars, codecVars, handed, meas>>

\* Line 363: io_context.stop().
IoStop ==
    /\ pub.pc = "done"
    /\ pub' = [pub EXCEPT !.pc = "join"]
    /\ UNCHANGED <<coreVars, tcpVars, clockVars, codecVars, handed, meas>>

\* Line 230-232: run() returns once the io_context is stopped and the handler
\* under way, if any, has returned; the thread function returns with it.
IoRunReturns ==
    /\ Stopped
    /\ io.pc = "run"
    /\ io' = [io EXCEPT !.pc = "returned"]
    /\ UNCHANGED <<clients_, clients_mutex_, accept_armed, conn, bc, wq, rx, submitted>>
    /\ UNCHANGED <<coreVars, clockVars, codecVars, loopVars>>

\* Line 364-366: io_thread.join() returns when the thread function has
\* returned.
IoJoin ==
    /\ pub.pc = "join"
    /\ io.pc = "returned"
    /\ pub' = [pub EXCEPT !.pc = "joined"]
    /\ UNCHANGED <<coreVars, tcpVars, clockVars, codecVars, handed, meas>>

(***************************************************************************)
(* SpecMain: main from line 249 on, with the server's thread running and   *)
(* clients that connect and reset their connections.  Every record is the  *)
(* same and every socket takes a whole message at once.                    *)
(***************************************************************************)
InitMain ==
    /\ InitRing
    /\ prod = ProdIdle("direct", "none")
    /\ cons = ConsIdle("direct", ZeroRecord, "none")
    /\ InitShm
    /\ InitServer
    /\ InitClock
    /\ InitCodec
    /\ pub = [LoopIdle EXCEPT !.pc = "shm"]
    /\ handed = <<>>
    /\ meas = NoMeas

\* The steps of the main thread.
MainThread ==
    \/ \E fault \in Faults : MainCreateShm(fault)
    \/ MainInitRing
    \/ MainUnwind
    \/ LoopOffer(1)
    \/ TryWriteLoadRead
    \/ TryWriteCopy
    \/ TryWriteStore
    \/ LoopGetCount
    \/ LoopBroadcast
    \/ \E c \in Socks : BroadcastSend(c, Len(Message(1)))
    \/ BroadcastReturn
    \/ LoopStatus
    \/ LoopSleep
    \/ IoStop
    \/ IoJoin

\* A completion handler is taken.
HandlerStart ==
    \/ \E c \in Socks : Dispatch(AcceptComplete(c))
    \/ \E c \in Socks : Dispatch(ProbeComplete(c))
    \/ \E c \in Socks, k \in LineIds : Dispatch(WriteContinue(c, k))

\* The steps of the thread in io_context.run().
IoThread ==
    \/ HandlerStart
    \/ AcceptInsert
    \/ StartAccept
    \/ ProbeErase
    \/ IoRunReturns

NextMain ==
    \/ MainThread
    \/ IoThread
    \/ \E c \in Socks : ClientConnect(c)
    \/ \E c \in Socks : ClientReset(c)

SpecMain == InitMain /\ [][NextMain]_vars

\* Both threads are scheduled.
SpecMainLive == SpecMain /\ WF_vars(MainThread) /\ WF_vars(IoThread)

\* A handler of the server runs: the thread enters one or is in one.
HandlerRuns ==
    \/ HandlerStart
    \/ io.pc \in {"acc_insert", "acc_rearm", "probe_erase"} /\ io' # io

\* C35: once the loop has ended the io_context is stopped, the thread in
\* run() returns and is joined, and the shutdown completes: the join returns
\* only when the thread function has returned, the thread that is waited for
\* has not been ended by an exception, and the join is reached.  After the
\* join no accept, read-probe or write-completion handler runs.
C35_ShutdownCompletes ==
    /\ [][(pub'.pc = "joined" => io.pc = "returned")]_vars
    /\ [][(pub.pc = "joined" => (~HandlerRuns /\ io' = io))]_vars
    /\ [](pub.pc = "join" => io.pc # "terminated")
    /\ (pub.pc = "done") ~> (pub.pc = "joined")

\* C39: on every way out of main taken after the thread of line 230 was
\* started, the io_context is stopped and the thread joined before its
\* std::thread object is destroyed: an exception of the segment's constructor
\* reaches the handler of main and the process is not aborted.
C39_ErrorExitJoinsThread ==
    /\ pub.pc # "aborted"
    /\ pub.pc = "unwind" => Stopped

(***************************************************************************)
(* SpecRingLive: the ring of Spec, without the inspectors, with a consumer *)
(* thread that keeps calling try_read.                                     *)
(***************************************************************************)
\* The producer thread calls try_write and goes through it.
ProducerCalls ==
    \/ \E p \in Payloads : TryWriteLoadWrite(p)
    \/ TryWriteLoadRead
    \/ TryWriteCopy
    \/ TryWriteStore

\* The consumer thread calls try_read and goes through it.
ConsumerCalls ==
    \/ TryReadLoadRead
    \/ TryReadLoadWrite
    \/ TryReadCopy
    \/ TryReadStore

NextRing == ProducerCalls \/ ConsumerCalls

SpecRingLive == Init /\ [][NextRing]_vars /\ WF_vars(ConsumerCalls)

\* C36: with a consumer that keeps calling try_read, every record accepted by
\* try_write is eventually returned by a try_read; and a producer that keeps
\* calling try_write is eventually accepted again: the ring does not stay full.
C36_AcceptedEventuallyReturned ==
    /\ \A n \in 1 .. MaxRecords :
          (Len(accepted) >= n) ~>
              (Len(returned) >= n /\ Len(accepted) >= n /\ returned[n] = accepted[n])
    /\ WF_vars(ProducerCalls) =>
          \A n \in 0 .. MaxRecords - 1 :
              (Len(accepted) = n) ~> (Len(accepted) > n)

\* A try_write was rejected by the full ring after the ring had wrapped, and
\* every record accepted before it has been returned since.
C36_Witness ==
    /\ prod.ret = "false"
    /\ Len(accepted) > capacity
    /\ returned = accepted

(***************************************************************************)
(* SpecSockets: the accept handler followed call by call (AcceptInsert     *)
(* takes it in one step), with the main thread in broadcast_json.          *)
(***************************************************************************)
\* Line 69-72: clients_.insert under the lock_guard, which is released at the
\* end of the block.
AcceptInsertLocked ==
    /\ io.pc = "acc_insert"
    /\ clients_mutex_ = "free"
    /\ clients_' = clients_ \cup {io.sock}
    /\ io' = [io EXCEPT !.pc = "acc_inserted"]
    /\ UNCHANGED <<clients_mutex_, accept_armed, conn, bc, wq, rx, submitted>>
    /\ UNCHANGED <<coreVars, clockVars, codecVars, loopVars>>

\* Line 75, 84-88: setup_disconnect_detection calls socket->async_read_some.
ProbeBegin ==
    /\ io.pc = "acc_inserted"
    /\ io' = [io EXCEPT !.pc = "in_read_some"]
    /\ UNCHANGED <<clients_, clients_mutex_, accept_armed, conn, bc, wq, rx, submitted>>
    /\ UNCHANGED <<coreVars, clockVars, codecVars, loopVars>>

\* Line 88-104: async_read_some returns, the one-byte read started.
ProbeEnd ==
    /\ io.pc = "in_read_some"
    /\ conn' = [conn EXCEPT ![io.sock].probe = TRUE]
    /\ io' = [io EXCEPT !.pc = "acc_rearm"]
    /\ UNCHANGED <<clients_, clients_mutex_, accept_armed, bc, wq, rx, submitted>>
    /\ UNCHANGED <<coreVars, clockVars, codecVars, loopVars>>

NextSockets ==
    \/ \E c \in Socks : ClientConnect(c)
    \/ \E c \in Socks : AcceptComplete(c)
    \/ AcceptInsertLocked
    \/ ProbeBegin
    \/ ProbeEnd
    \/ StartAccept
    \/ BroadcastLock
    \/ \E c \in Socks, n \in SendSizes : BroadcastSend(c, n)
    \/ BroadcastReturn
    \/ \E c \in Socks : KernelSend(c)
    \/ \E c \in Socks, k \in LineIds : WriteContinue(c, k)

SpecSockets == InitSegments /\ [][NextSockets]_vars

\* In this step the main thread starts an asynchronous write on socket c
\* (line 155).
MainWritesTo(c) ==
    /\ bc.pc = "loop"
    /\ c \in bc.todo
    /\ c \notin bc'.todo
    /\ conn[c].is_open

\* The thread in run() is inside a call on socket c.
IoInCallOn(c) == io.pc = "in_read_some" /\ io.sock = c

\* C38: no socket is operated on by two threads at once: the main thread
\* starts no asynchronous write on a socket while the thread in run() is
\* inside an operation on that socket.
C38_OneThreadPerSocket ==
    [][\A c \in Socks : MainWritesTo(c) => ~IoInCallOn(c)]_vars

\* C40: a construction that fails removes only what it created itself: in a
\* step that destroys no handle, a name that was bound to an object stays
\* bound to it, also when a create-mode construction on that name fails.
C40_FailureKeepsExistingName ==
    [][(\A h \in Handles : handles[h].state = "live" => handles'[h].state = "live")
          => (\A n \in Names : shm_names[n] # NoObj => shm_names'[n] = shm_names[n])]_vars

====
